---------------------------- MODULE Spec2Model ----------------------------
(***************************************************************************)
(* MusicPainter: the worker threads (dotheplay, dotherecord), the render   *)
(* list they fill, the canvas that paints it and the PaintBrush            *)
(* generators, modelled from src/MusicPainter.py and src/PaintBrush.py.    *)
(*                                                                         *)
(* Numbers.  Object-space coordinates, angles and the PaintBrush           *)
(* accumulators are Python floats; here they are integers in units of      *)
(* 1/Scale (0.1 is 100, np.pi is 3142 milliradians).  Python booleans      *)
(* stored in RLData are 1 and 0, which is also how Python compares them    *)
(* (True == 1).  Frequencies are whole Hz.  None is 0 where a reference    *)
(* is meant (music_thread, freqlist, fl).                                  *)
(***************************************************************************)
EXTENDS Integers, Sequences, FiniteSets, TLC

\* ------------------------------------------------------------------ bounds
\* Thread objects the GUI may create in one behaviour.
MaxThreads == 2
\* Frames of a loaded file (playback) and frames one recording captures.
MaxFrames == 2
\* Algorithm combo indices 0..MaxAlgIndex can be selected under Spec.
MaxAlgIndex == 1
\* Generator calls in one behaviour of SpecAlg.
MaxCalls == 2

\* ------------------------------------------------------------ fixed point
\* The unit of the fixed-point numbers: thousandths.
Scale == 10 * 10 * 10
\* np.pi, in thousandths.
PI == 3142

Abs(x) == IF x < 0 THEN -x ELSE x

\* sin on [0, PI] milliradians, in thousandths (Bhaskara's rational form:
\* 16x(pi-x) / (5pi^2 - 4x(pi-x)), within 0.002 of the sine).
SinHalf(x) == (16 * x * (PI - x)) \div ((5 * PI * PI - 4 * x * (PI - x)) \div Scale)

\* np.sin and np.cos of an angle in milliradians, in thousandths.
Sin(x) ==
    LET r == x % (2 * PI)
    IN  IF r <= PI THEN SinHalf(r) ELSE -SinHalf(r - PI)

Cos(x) == Sin(x + PI \div 2)

\* sum(data) of a list of integers.
RECURSIVE Sum(_)
Sum(s) == IF s = <<>> THEN 0 ELSE Head(s) + Sum(Tail(s))

\* ------------------------------------------------------------- RenderList
\* A slip of RenderList.add: the item is inserted at the front.
RLAddFront(renderlist, item) == <<item>> \o renderlist

\* RenderList.add: append one item.
RLAdd(renderlist, item) == Append(renderlist, item)

\* RenderList.clear: a fresh empty list.
RLClear == <<>>

\* RenderList.length.
RLLength(renderlist) == Len(renderlist)

\* The "no value" RenderList.get returns outside the range (Python's None).
None == <<>>

\* A slip of RenderList.get: the range test is off by one and the last
\* element is reported as missing.
RLGetShort(renderlist, i) ==
    IF i < 0 \/ i >= Len(renderlist) - 1 THEN <<>> ELSE renderlist[i + 1]

\* RenderList.get(i), i counted from 0 as in the source.
RLGet(renderlist, i) ==
    IF i < 0 \/ i >= Len(renderlist) THEN None ELSE renderlist[i + 1]

\* ------------------------------------------------------------- PaintBrush
\* Render objects are the source's lists [tag, fields..., colour] with the
\* colour flattened to its r, g, b, a bytes.
makePoint(x, y, col) == <<0, x, y>> \o col

makeLine(x1, y1, x2, y2, col) == <<1, x1, y1, x2, y2>> \o col

makeCircle(cx, cy, rad, fill, col) == <<2, cx, cy, rad, fill>> \o col

makeRectangle(ULx, ULy, LRx, LRy, fill, col) == <<3, ULx, ULy, LRx, LRy, fill>> \o col

makeTriangle(x1, y1, x2, y2, x3, y3, fill, col) ==
    <<4, x1, y1, x2, y2, x3, y3, fill>> \o col

\* The private state of the generators: PaintBrush.RLData, TriangleList,
\* LineList and avgList, as PaintBrush.__init__ leaves them.  avgList is
\* created by SetAlg13 only; algorithm 13 cannot run before SetAlg13 has
\* (the combo starts at index 0), so the missing attribute is never read.
\* currentAlgorithm starts at 1 and fl at mainapp.freqlist, which is None (0)
\* when the PaintBrush is built.
PaintBrushInit ==
    [RLData |-> <<>>, TriangleList |-> <<>>, LineList |-> <<>>, avgList |-> <<>>,
     currentAlgorithm |-> 1, fl |-> 0]

SetAlg6(pb) ==
    [pb EXCEPT !.RLData = <<Scale, Scale, Scale, -Scale, -Scale, -Scale, -Scale, Scale, 0>>,
               !.TriangleList = <<>>]

SetAlg2345(pb) == [pb EXCEPT !.RLData = <<0, 0, 0>>]

SetAlg7(pb) == [pb EXCEPT !.RLData = <<PI, 100, 100, 1, 0, 1>>]

SetAlg8(pb) == [pb EXCEPT !.RLData = <<PI, 25, 100, 1, 0, 0, 25>>]

SetAlg9(pb) ==
    [pb EXCEPT !.RLData = <<1, 0, 0>>, !.TriangleList = <<>>, !.LineList = <<>>]

SetAlg10(pb) == [pb EXCEPT !.RLData = <<0, 0>>]

SetAlg13(pb) == [pb EXCEPT !.RLData = <<0, 0, 0, 0, 0>>, !.avgList = <<>>]

\* What one generator call returns here: the state it leaves, the objects it
\* added to the render list in order, and whether it raised an exception.
Result(pb, objs) == [pb |-> pb, objs |-> objs, err |-> FALSE]

Raised(pb, objs) == [pb |-> pb, objs |-> objs, err |-> TRUE]

\* algorithm1(data, pos); numfreq is len(self.fl), -1 when self.fl is None
\* (len(None) raises TypeError) and 0 when it is empty (ZeroDivisionError).
algorithm1(pb, numfreq, data, pos) ==
    IF numfreq <= 0 \/ data = <<>> THEN Raised(pb, <<>>)
    ELSE LET maxfreq == 2000
             x == (2 * pos * Scale) \div numfreq - Scale
             y == ((Sum(data) * Scale) \div Len(data)) \div maxfreq
         IN  Result(pb, <<makeCircle(x, y - 500, 10, 1, <<255, 0, 0, 255>>)>>)

\* The trail walks 2, 4 and 5 advance RLData[2] by 0.1; 3 takes its angle
\* from the frequency.  data[0] % 1 is 0 for a whole frequency.
TrailTheta(alg, RLData2, data) ==
    IF alg = 3 THEN ((data[1] * Scale) % PI) * 2 ELSE (RLData2 % PI) * 2

TrailX(alg, theta, data) ==
    CASE alg = 2 -> (Cos(theta) * ((data[1] * Scale) % Scale)) \div Scale
      [] alg = 3 -> (Cos(theta) * ((data[1] * Scale) % Scale)) \div Scale
      [] alg = 4 -> Sin(10 * theta)
      [] OTHER   -> (Cos(theta) - Cos(9 * theta)) \div 2

TrailY(alg, theta, data) ==
    CASE alg = 2 -> (Sin(theta) * ((data[1] * Scale) % Scale)) \div Scale
      [] alg = 3 -> (Sin(theta) * ((data[1] * Scale) % Scale)) \div Scale
      [] alg = 4 -> Sin(8 * theta)
      [] OTHER   -> (Sin(theta) - Sin(9 * theta)) \div 2

TrailCol(alg, data, spectdata) ==
    CASE alg = 2 -> <<200, (spectdata % 200) + 55, (data[1] % 100) + 55, 255>>
      [] alg = 3 -> <<(spectdata % 155) + 100, 100, (data[1] % 155) + 100, 255>>
      [] alg = 4 -> <<175, (spectdata % 200) + 55, (data[1] % 100) + 155, 255>>
      [] OTHER   -> <<50, (spectdata % 155) + 100, (data[1] % 155) + 100, 255>>

\* A slip of the trail walks: the line is drawn but the new cursor is not
\* stored.
algorithmTrailSlip(alg, pb, data, spectdata) ==
    IF Len(pb.RLData) < (IF alg = 3 THEN 2 ELSE 3) \/ data = <<>> THEN Raised(pb, <<>>)
    ELSE LET acc   == IF alg = 3 THEN 0 ELSE pb.RLData[3] + 100
             theta == TrailTheta(alg, acc, data)
             x     == TrailX(alg, theta, data)
             y     == TrailY(alg, theta, data)
             line  == makeLine(pb.RLData[1], pb.RLData[2], x, y, TrailCol(alg, data, spectdata))
         IN  Result([pb EXCEPT !.RLData = IF alg = 3 THEN pb.RLData
                                           ELSE [pb.RLData EXCEPT ![3] = acc]],
                    <<line>>)

\* algorithm2 .. algorithm5 (alg names which).  2, 4 and 5 start with
\* RLData[2] += 0.1 and 3 first reads RLData[0] in the argument of its add:
\* on a shorter RLData that raises IndexError with nothing changed or added.
algorithmTrail(alg, pb, data, spectdata) ==
    IF Len(pb.RLData) < (IF alg = 3 THEN 2 ELSE 3) \/ data = <<>> THEN Raised(pb, <<>>)
    ELSE LET acc   == IF alg = 3 THEN 0 ELSE pb.RLData[3] + 100
             theta == TrailTheta(alg, acc, data)
             x     == TrailX(alg, theta, data)
             y     == TrailY(alg, theta, data)
             line  == makeLine(pb.RLData[1], pb.RLData[2], x, y, TrailCol(alg, data, spectdata))
             moved == [pb.RLData EXCEPT ![1] = x, ![2] = y]
         IN  Result([pb EXCEPT !.RLData = IF alg = 3 THEN moved
                                           ELSE [moved EXCEPT ![3] = acc]],
                    <<line>>)

\* A slip of the bands: the seventh band is missing, so the accumulator is
\* given up beyond 6 pi.
Alg10DivisorSlip(acc) ==
    IF acc <= PI THEN 106
    ELSE IF acc <= PI * 2 THEN 128
    ELSE IF acc <= PI * 3 THEN 160
    ELSE IF acc <= PI * 4 THEN 210
    ELSE IF acc <= PI * 5 THEN 295
    ELSE IF acc <= PI * 6 THEN 480
    ELSE 0

\* The radius divisor (times 100) of the pi-band RLData[1] lies in: 1.06,
\* 1.28, 1.6, 2.1, 2.95, 4.8, 12.0 for bands 1..7, and 0 beyond 7 pi.
Alg10Divisor(acc) ==
    IF acc <= PI THEN 106
    ELSE IF acc <= PI * 2 THEN 128
    ELSE IF acc <= PI * 3 THEN 160
    ELSE IF acc <= PI * 4 THEN 210
    ELSE IF acc <= PI * 5 THEN 295
    ELSE IF acc <= PI * 6 THEN 480
    ELSE IF acc <= PI * 7 THEN 1200
    ELSE 0

\* algorithm10: both accumulators advance by 0.51; beyond 7 pi the second is
\* set to 0 and nothing is added.
algorithm10(pb, data, spectdata) ==
    IF Len(pb.RLData) < 2 \/ data = <<>> THEN Raised(pb, <<>>)
    ELSE LET a0    == pb.RLData[1] + 510
             a1    == pb.RLData[2] + 510
             theta == (a0 % PI) * 2
             d     == Alg10Divisor(a1)
             next1 == IF d = 0 THEN 0 ELSE a1
             col   == <<(spectdata % 155) + 100, 75, (data[1] % 75) + 180, 255>>
             objs  == IF next1 # 0
                      THEN <<makeCircle((Cos(theta) * 100) \div d, (Sin(theta) * 100) \div d,
                                        50, 1, col)>>
                      ELSE <<>>
         IN  Result([pb EXCEPT !.RLData = [pb.RLData EXCEPT ![1] = a0, ![2] = next1]],
                    objs)

\* avg of algorithms 11, 12 and 13, in thousandths of a Hz: the mean of the
\* first two channels, or the only channel.
ChannelAvg(data) ==
    IF Len(data) > 1 THEN ((data[1] + data[2]) * Scale) \div 2 ELSE data[1] * Scale

\* The 0.1-wide filled square of algorithms 11 and 12 around (x, y).
Square(x, y, col) == makeRectangle(x - 50, y + 50, x + 50, y - 50, 1, col)

\* algorithm11: a square on the spiral r = pos/1000, angle 5*pos/1000*2*pi.
algorithm11(pb, data, pos) ==
    IF data = <<>> THEN Raised(pb, <<>>)
    ELSE LET avg   == ChannelAvg(data)
             angle == (5 * pos * 2 * PI) \div 1000
             x     == (pos * Cos(angle)) \div 1000
             y     == (pos * Sin(angle)) \div 1000
             col   == IF avg > 326 * Scale THEN <<255, 0, 0, 255>>
                      ELSE IF 250 * Scale < avg /\ avg <= 325 * Scale
                           THEN <<(avg * 255) \div (1000 * Scale), 255,
                                  (avg * 255) \div (2000 * Scale), 255>>
                           ELSE <<0, 0, 0, 255>>
         IN  Result(pb, <<Square(x, y, col)>>)

\* algorithm12: a square at the random position (rx, ry).
algorithm12(pb, data, rx, ry) ==
    IF data = <<>> THEN Raised(pb, <<>>)
    ELSE LET avg == ChannelAvg(data)
             col == IF avg > 300 * Scale THEN <<255, 0, 0, 255>>
                    ELSE IF 201 * Scale < avg /\ avg <= 299 * Scale THEN <<128, 0, 0, 255>>
                    ELSE IF 150 * Scale < avg /\ avg <= 200 * Scale THEN <<0, 255, 0, 255>>
                    ELSE <<0, 0, 0, 255>>
         IN  Result(pb, <<Square(rx, ry, col)>>)

\* A slip of the cell table of algorithm 13: cursor 8 gets the cell of 7.
Alg13CellSlip(q) ==
    CASE q = 0 -> <<-1000, 1000, -330, 330>>
      [] q = 1 -> <<-330, 330, 330, 1000>>
      [] q = 2 -> <<330, 1000, 1000, 330>>
      [] q = 3 -> <<-1000, 330, -330, -330>>
      [] q = 4 -> <<-330, 330, 330, -330>>
      [] q = 5 -> <<330, 330, 1000, -330>>
      [] q = 6 -> <<-1000, -330, -330, -1000>>
      [] OTHER -> <<-330, -1000, 330, -330>>

\* The nine cells of algorithm 13: RLData[1..4] for quadrant cursor 0..8.
Alg13Cell(q) ==
    CASE q = 0 -> <<-1000, 1000, -330, 330>>
      [] q = 1 -> <<-330, 330, 330, 1000>>
      [] q = 2 -> <<330, 1000, 1000, 330>>
      [] q = 3 -> <<-1000, 330, -330, -330>>
      [] q = 4 -> <<-330, 330, 330, -330>>
      [] q = 5 -> <<330, 330, 1000, -330>>
      [] q = 6 -> <<-1000, -330, -330, -1000>>
      [] q = 7 -> <<-330, -1000, 330, -330>>
      [] OTHER -> <<330, -330, 1000, -1000>>

\* The loop "for i in self.avgList: totalAvg += self.avgList.pop(count);
\* count += 1" of algorithm 13: the iterator stands at index count and ends
\* once count reaches the length of the list being shortened.  Returns
\* <<totalAvg, count>>.
RECURSIVE Alg13PopLoop(_, _, _)
Alg13PopLoop(list, count, totalAvg) ==
    IF count >= Len(list) THEN <<totalAvg, count>>
    ELSE Alg13PopLoop(SubSeq(list, 1, count) \o SubSeq(list, count + 2, Len(list)),
                      count + 1, totalAvg + list[count + 1])

\* The colour band of algorithm 13 for totalAvg (thousandths of a Hz).
Alg13Col(totalAvg) ==
    IF totalAvg < 50 * Scale THEN <<0, 0, 0, 255>>
    ELSE IF totalAvg < 210 * Scale THEN <<26, 26, 255, 255>>
    ELSE IF totalAvg < 550 * Scale THEN <<128, 204, 179, 255>>
    ELSE IF totalAvg < 2000 * Scale THEN <<255, 0, 0, 255>>
    ELSE <<0, 255, 0, 255>>

\* algorithm13(data, active).  The average is appended first; a call with
\* active false then sets the cell of the quadrant cursor RLData[0] (a cursor
\* outside 0..8 leaves the cell as it is), advances the cursor, averages and
\* clears avgList and adds the rectangle.  An RLData shorter than the index
\* it reaches raises IndexError with the average already appended.
algorithm13(pb, data, active) ==
    IF data = <<>> THEN Raised(pb, <<>>)
    ELSE LET appended == [pb EXCEPT !.avgList = Append(pb.avgList, ChannelAvg(data))]
         IN  IF active THEN Result(appended, <<>>)
             ELSE IF Len(pb.RLData) < 5 THEN Raised(appended, <<>>)
             ELSE LET q     == pb.RLData[1]
                      cell  == IF q \in 0..8 THEN Alg13Cell(q) ELSE SubSeq(pb.RLData, 2, 5)
                      nextq == IF q < 8 THEN q + 1 ELSE 0
                      loop  == Alg13PopLoop(appended.avgList, 0, 0)
                      col   == Alg13Col(loop[1] \div loop[2])
                      data5 == <<nextq>> \o cell \o SubSeq(pb.RLData, 6, Len(pb.RLData))
                  IN  Result([appended EXCEPT !.RLData = data5, !.avgList = <<>>],
                             <<makeRectangle(cell[1], cell[2], cell[3], cell[4], 1, col)>>)

\* A slip of getRBG: the fifth band runs down instead of up.
getRBGSlip(RBGVal) ==
    IF RBGVal >= 0 /\ RBGVal <= 255 THEN <<255, 0, RBGVal>>
    ELSE IF RBGVal >= 255 /\ RBGVal <= 510 THEN <<255 - (RBGVal - 255), 0, 255>>
    ELSE IF RBGVal >= 510 /\ RBGVal <= 765 THEN <<0, RBGVal - 510, 255>>
    ELSE IF RBGVal >= 765 /\ RBGVal <= 1020 THEN <<0, 255, 255 - (RBGVal - 765)>>
    ELSE IF RBGVal >= 1020 /\ RBGVal <= 1275 THEN <<255 - (RBGVal - 1020), 255, 0>>
    ELSE IF RBGVal >= 1275 /\ RBGVal <= 1530 THEN <<255, 255 - (RBGVal - 1275), 0>>
    ELSE <<0, 0, 0>>

\* getRBG(RBGVal): the six-band hue ramp; [0, 0, 0] outside 0..1530.
getRBG(RBGVal) ==
    IF RBGVal >= 0 /\ RBGVal <= 255 THEN <<255, 0, RBGVal>>
    ELSE IF RBGVal >= 255 /\ RBGVal <= 510 THEN <<255 - (RBGVal - 255), 0, 255>>
    ELSE IF RBGVal >= 510 /\ RBGVal <= 765 THEN <<0, RBGVal - 510, 255>>
    ELSE IF RBGVal >= 765 /\ RBGVal <= 1020 THEN <<0, 255, 255 - (RBGVal - 765)>>
    ELSE IF RBGVal >= 1020 /\ RBGVal <= 1275 THEN <<RBGVal - 1020, 255, 0>>
    ELSE IF RBGVal >= 1275 /\ RBGVal <= 1530 THEN <<255, 255 - (RBGVal - 1275), 0>>
    ELSE <<0, 0, 0>>

\* The spectral-weight ramp shared by algorithms 6 to 9: hi at and above
\* 200000, lo at and below 10000, and ((spect - 10000) / 190000) * span + base
\* in between (all but spect in thousandths).
SpectRamp(spect, hi, lo, span, base) ==
    IF spect >= 200000 THEN hi
    ELSE IF spect <= 10000 THEN lo
    ELSE ((spect - 10000) * span) \div 190000 + base

\* The blend of algorithm 6: ((w * a) + b) / (w + 1), w in thousandths.
Alg6Blend(w, a, b) == (w * a + Scale * b) \div (w + Scale)

\* The triangle and the two lines algorithm 6 replays for one history entry.
Alg6Replay(Triangle, TriCol, LineCol) ==
    << makeTriangle(Triangle[1][1], Triangle[1][2], Triangle[2][1], Triangle[2][2],
                    Triangle[3][1], Triangle[3][2], 1, TriCol),
       makeLine(Triangle[1][1], Triangle[1][2], Triangle[2][1], Triangle[2][2], LineCol),
       makeLine(Triangle[1][1], Triangle[1][2], Triangle[3][1], Triangle[3][2], LineCol) >>

\* The objects of the replay loop over history indices from..to-1 (from 0);
\* the loop stops with IndexError at the first index past the history.
RECURSIVE Alg6ReplayBlock(_, _, _, _, _)
Alg6ReplayBlock(TriangleList, from, to, TriCol, LineCol) ==
    IF from >= to \/ from >= Len(TriangleList) THEN <<>>
    ELSE Alg6Replay(TriangleList[from + 1], TriCol, LineCol)
         \o Alg6ReplayBlock(TriangleList, from + 1, to, TriCol, LineCol)

\* algorithm6(data, spect).  The colours are the HSV values given to setHsv.
algorithm6(pb, data, spect) ==
    IF Len(pb.RLData) < 2 \/ data = <<>> THEN Raised(pb, <<>>)
    ELSE LET R       == pb.RLData
             Hue     == data[1] * 10
             TriCol  == <<Hue, 255, 130, 255>>
             LineCol == <<Hue, 0, 200, 255>>
         IN  IF R[1] * R[1] + R[2] * R[2] > 50 * 50
             THEN IF Len(R) < 8 THEN Raised(pb, <<>>)
                  ELSE LET w  == SpectRamp(spect, 15 * Scale, 30 * Scale, 15 * Scale, 15 * Scale)
                           x1 == Alg6Blend(w, R[1], R[7])
                           y1 == Alg6Blend(w, R[2], R[8])
                           x2 == Alg6Blend(w, R[3], R[1])
                           y2 == Alg6Blend(w, R[4], R[2])
                           x3 == Alg6Blend(w, R[5], R[3])
                           y3 == Alg6Blend(w, R[6], R[4])
                           x4 == Alg6Blend(w, R[7], R[5])
                           y4 == Alg6Blend(w, R[8], R[6])
                           objs == << makeTriangle(R[1], R[2], x1, y1, x2, y2, 1, TriCol),
                                      makeTriangle(R[3], R[4], x2, y2, x3, y3, 1, TriCol),
                                      makeTriangle(R[5], R[6], x3, y3, x4, y4, 1, TriCol),
                                      makeTriangle(R[7], R[8], x4, y4, x1, y1, 1, TriCol),
                                      makeLine(R[1], R[2], R[3], R[4], LineCol),
                                      makeLine(R[3], R[4], R[5], R[6], LineCol),
                                      makeLine(R[5], R[6], R[7], R[8], LineCol),
                                      makeLine(R[7], R[8], R[1], R[2], LineCol) >>
                           hist == << <<<<R[1], R[2]>>, <<x1, y1>>, <<x2, y2>>>>,
                                      <<<<R[3], R[4]>>, <<x2, y2>>, <<x3, y3>>>>,
                                      <<<<R[5], R[6]>>, <<x3, y3>>, <<x4, y4>>>>,
                                      <<<<R[7], R[8]>>, <<x4, y4>>, <<x1, y1>>>> >>
                       IN  Result([pb EXCEPT
                                     !.RLData = <<x1, y1, x2, y2, x3, y3, x4, y4>>
                                                \o SubSeq(R, 9, Len(R)),
                                     !.TriangleList = pb.TriangleList \o hist],
                                  objs)
             ELSE IF Len(R) < 9 THEN Raised(pb, <<>>)
             ELSE LET bumped == R[9] + 1
                      cursor == IF bumped * 4 >= Len(pb.TriangleList) THEN 1 ELSE bumped
                      objs   == Alg6ReplayBlock(pb.TriangleList, (cursor - 1) * 4, cursor * 4,
                                                TriCol, LineCol)
                      next   == [pb EXCEPT !.RLData = [R EXCEPT ![9] = cursor]]
                  IN  IF cursor * 4 > Len(pb.TriangleList) THEN Raised(next, objs)
                      ELSE Result(next, objs)

\* The k-th point (k in 1..11) of the star of algorithm 7: radius RLData[1]
\* at angle RLData[0] * (.5 - 2(k-1)/11) + RLData[2].
Alg7Angle(R, k) == (R[1] * (11 - 4 * (k - 1))) \div 22 + R[3]

Alg7Px(R, k) == (R[2] * Cos(Alg7Angle(R, k))) \div Scale

Alg7Py(R, k) == (R[2] * Sin(Alg7Angle(R, k))) \div Scale

\* The weave of algorithm 7: the point indices its eleven lines join.
Alg7Weave == <<1, 6, 11, 5, 10, 4, 9, 3, 8, 2, 7, 1>>

\* A slip of algorithm 7: the flag turns to shrinking by the radius before
\* the scaling.
algorithm7Slip(pb, data, spect) ==
    IF Len(pb.RLData) < 6 \/ data = <<>> THEN Raised(pb, <<>>)
    ELSE LET R        == pb.RLData
             maxf     == IF R[4] # 0 THEN data[1]
                         ELSE IF data[1] > R[5] THEN data[1] ELSE R[5]
             RedGreen == (data[1] * 510) \div maxf - 255
             LineCol  == IF maxf > 0
                         THEN IF RedGreen < 0 THEN <<0, Abs(RedGreen), 255, 255>>
                              ELSE <<RedGreen, 0, 255, 255>>
                         ELSE <<0, 0, 255, 255>>
             SizeMultiplier ==
                 IF R[6] # 0 THEN SpectRamp(spect, 1300, 1000, 300, 1000)
                 ELSE IF spect >= 200000 THEN 700
                 ELSE IF spect <= 10000 THEN 1000
                 ELSE 1000 - ((spect - 10000) * 300) \div 190000
             objs     == [j \in 1..11 |->
                            makeLine(Alg7Px(R, Alg7Weave[j]), Alg7Py(R, Alg7Weave[j]),
                                     Alg7Px(R, Alg7Weave[j + 1]), Alg7Py(R, Alg7Weave[j + 1]),
                                     LineCol)]
             radius   == (R[2] * SizeMultiplier) \div Scale
             turned   == IF R[6] # 0 /\ R[2] > Scale THEN 0 ELSE R[6]
             growing  == IF turned = 0 /\ radius < 100 THEN 1 ELSE turned
         IN  Result([pb EXCEPT !.RLData = [R EXCEPT ![2] = radius, ![3] = R[3] + 30,
                                                     ![4] = 0, ![5] = maxf, ![6] = growing]],
                    objs)

\* algorithm7(data, spect).
algorithm7(pb, data, spect) ==
    IF Len(pb.RLData) < 6 \/ data = <<>> THEN Raised(pb, <<>>)
    ELSE LET R        == pb.RLData
             maxf     == IF R[4] # 0 THEN data[1]
                         ELSE IF data[1] > R[5] THEN data[1] ELSE R[5]
             RedGreen == (data[1] * 510) \div maxf - 255
             LineCol  == IF maxf > 0
                         THEN IF RedGreen < 0 THEN <<0, Abs(RedGreen), 255, 255>>
                              ELSE <<RedGreen, 0, 255, 255>>
                         ELSE <<0, 0, 255, 255>>
             SizeMultiplier ==
                 IF R[6] # 0 THEN SpectRamp(spect, 1300, 1000, 300, 1000)
                 ELSE IF spect >= 200000 THEN 700
                 ELSE IF spect <= 10000 THEN 1000
                 ELSE 1000 - ((spect - 10000) * 300) \div 190000
             objs     == [j \in 1..11 |->
                            makeLine(Alg7Px(R, Alg7Weave[j]), Alg7Py(R, Alg7Weave[j]),
                                     Alg7Px(R, Alg7Weave[j + 1]), Alg7Py(R, Alg7Weave[j + 1]),
                                     LineCol)]
             radius   == (R[2] * SizeMultiplier) \div Scale
             turned   == IF R[6] # 0 /\ radius > Scale THEN 0 ELSE R[6]
             growing  == IF turned = 0 /\ radius < 100 THEN 1 ELSE turned
         IN  Result([pb EXCEPT !.RLData = [R EXCEPT ![2] = radius, ![3] = R[3] + 30,
                                                     ![4] = 0, ![5] = maxf, ![6] = growing]],
                    objs)

\* The ten concentric circles algorithm 8 adds at (x, y).
Alg8Glow(x, y, Radius, RGB) ==
    [i \in 1..10 |-> makeCircle(x, y, Radius \div i, 1, RGB \o <<(255 * i) \div 10>>)]

\* algorithm8(data, spect).
algorithm8(pb, data, spect) ==
    IF Len(pb.RLData) < 7 \/ data = <<>> THEN Raised(pb, <<>>)
    ELSE LET R      == pb.RLData
             max0   == IF R[4] # 0 THEN data[1]
                       ELSE IF data[1] > R[5] THEN data[1] ELSE R[5]
             max1   == IF Len(data) > 1
                       THEN IF R[4] # 0 THEN data[2]
                            ELSE IF data[1] > R[6] THEN data[1] ELSE R[6]
                       ELSE R[6]
             Freq   == IF max0 > 0 THEN (data[1] * 1530) \div max0 ELSE 0
             Freq2  == IF max1 > 0 THEN (data[2] * 1530) \div max1 ELSE 0
             Radius == SpectRamp(spect, 200, 100, 100, 100)
             P1x    == (R[2] * Cos((R[1] * 5) \div 10 + R[3])) \div Scale
             P1y    == (R[2] * Sin((R[1] * 5) \div 10 + R[3])) \div Scale
             P2x    == (R[7] * Cos((R[1] * 15) \div 10 + R[3])) \div Scale
             P2y    == (R[7] * Sin((R[1] * 15) \div 10 + R[3])) \div Scale
             objs   == Alg8Glow(P1x, P1y, Radius, getRBG(Freq))
                       \o (IF Len(data) > 1 THEN Alg8Glow(P2x, P2y, Radius, getRBG(Freq2))
                           ELSE <<>>)
             r1     == IF R[2] > Scale THEN Scale
                       ELSE IF R[2] < Scale THEN R[2] + 50 ELSE R[2]
             r6     == IF R[7] > 500 THEN 500
                       ELSE IF R[7] < 500 THEN R[7] + 25 ELSE R[7]
         IN  Result([pb EXCEPT !.RLData = [R EXCEPT ![2] = r1, ![3] = R[3] + 100, ![4] = 0,
                                                     ![5] = max0, ![6] = max1, ![7] = r6]],
                    objs)

\* ccw and intersect (Bryce Boe's segment test), on points <<x, y>>.
ccw(Point1, Point2, Point3) ==
    (Point3[2] - Point1[2]) * (Point2[1] - Point1[1])
        > (Point2[2] - Point1[2]) * (Point3[1] - Point1[1])

intersect(A, B, C, D) ==
    ccw(A, C, D) # ccw(B, C, D) /\ ccw(A, B, C) # ccw(A, B, D)

\* The corners the three edges of a triangle join: (0,1), (1,2), (2,0).
TriEdges == << <<1, 2>>, <<2, 3>>, <<3, 1>> >>

\* A slip of the validation: only the triangle stored first is tested.
ValidTriangleFirst(Triangle, TriangleList) ==
    \A n \in 1..1 : \A e \in 1..3 : \A f \in 1..3 :
        LET i  == TriangleList[n]
            Ta == Triangle[TriEdges[e][1]]
            Tb == Triangle[TriEdges[e][2]]
            ia == i[TriEdges[f][1]]
            ib == i[TriEdges[f][2]]
        IN  (Ta = ia \/ Ta = ib \/ Tb = ia \/ Tb = ib) \/ ~intersect(Ta, Tb, ia, ib)

\* ValidTriangle: no edge of Triangle intersects an edge of a stored
\* triangle, edges that share an endpoint being exempt.
ValidTriangle(Triangle, TriangleList) ==
    \A n \in 1..Len(TriangleList) : \A e \in 1..3 : \A f \in 1..3 :
        LET i  == TriangleList[n]
            Ta == Triangle[TriEdges[e][1]]
            Tb == Triangle[TriEdges[e][2]]
            ia == i[TriEdges[f][1]]
            ib == i[TriEdges[f][2]]
        IN  (Ta = ia \/ Ta = ib \/ Tb = ia \/ Tb = ib) \/ ~intersect(Ta, Tb, ia, ib)

\* ValidPoint: inside [-1, 1] on both axes.
ValidPoint(Point) ==
    ~(Point[1] > Scale \/ Point[1] < -Scale) /\ ~(Point[2] > Scale \/ Point[2] < -Scale)

\* pow(n, .5), rounded down.
RECURSIVE SqrtFrom(_, _)
SqrtFrom(n, r) == IF (r + 1) * (r + 1) > n THEN r ELSE SqrtFrom(n, r + 1)

Sqrt(n) == SqrtFrom(n, 0)

\* UsedTri of algorithm 9: the last stored triangle that has both endpoints
\* of Line among its corners; <<>> (the source's []) when there is none.
RECURSIVE Alg9UsedTri(_, _, _)
Alg9UsedTri(TriangleList, Line, n) ==
    IF n = 0 THEN <<>>
    ELSE LET i == TriangleList[n]
         IN  IF (Line[1] = i[1] \/ Line[1] = i[2] \/ Line[1] = i[3])
                /\ (Line[2] = i[1] \/ Line[2] = i[2] \/ Line[2] = i[3])
             THEN i
             ELSE Alg9UsedTri(TriangleList, Line, n - 1)

\* Line1 and Line2 of algorithm 9: two edges of UsedTri, avoiding edge 0-1
\* when it is vertical or horizontal, else edge 1-2 when that one is.
Alg9Bisected(UsedTri) ==
    IF UsedTri[1][1] = UsedTri[2][1] \/ UsedTri[1][2] = UsedTri[2][2]
    THEN << <<UsedTri[2], UsedTri[3]>>, <<UsedTri[3], UsedTri[1]>> >>
    ELSE IF UsedTri[2][1] = UsedTri[3][1] \/ UsedTri[2][2] = UsedTri[3][2]
    THEN << <<UsedTri[1], UsedTri[2]>>, <<UsedTri[3], UsedTri[1]>> >>
    ELSE << <<UsedTri[1], UsedTri[2]>>, <<UsedTri[2], UsedTri[3]>> >>

\* Whether the slope and normal arithmetic of algorithm 9 divides by zero:
\* a bisected edge is vertical (slope) or horizontal (-1 / slope), or the two
\* normals are equal.
Alg9DivZero(Line1, Line2) ==
    LET dx1 == Line1[2][1] - Line1[1][1]
        dy1 == Line1[2][2] - Line1[1][2]
        dx2 == Line2[2][1] - Line2[1][1]
        dy2 == Line2[2][2] - Line2[1][2]
    IN  dx1 = 0 \/ dy1 = 0 \/ dx2 = 0 \/ dy2 = 0 \/ dx2 * dy1 = dx1 * dy2

\* TriPoint of algorithm 9: where the perpendicular bisectors of Line1 and
\* Line2 meet (XPos, YPos of the source, the normals -dx/dy kept as fractions).
Alg9TriPoint(Line1, Line2) ==
    LET dx1 == Line1[2][1] - Line1[1][1]
        dy1 == Line1[2][2] - Line1[1][2]
        dx2 == Line2[2][1] - Line2[1][1]
        dy2 == Line2[2][2] - Line2[1][2]
        s1x == Line1[1][1] + Line1[2][1]
        s1y == Line1[1][2] + Line1[2][2]
        s2x == Line2[1][1] + Line2[2][1]
        s2y == Line2[1][2] + Line2[2][2]
        num == dx2 * dy1 * s2x + s2y * dy1 * dy2 - dx1 * dy2 * s1x - s1y * dy1 * dy2
        den == 2 * (dx2 * dy1 - dx1 * dy2)
        XPos == num \div den
        YPos == (s1y * dy1 - dx1 * (2 * XPos - s1x)) \div (2 * dy1)
    IN  <<XPos, YPos>>

\* LineIndex = random.randrange(0, len(self.LineList) - 1) in the k-th
\* iteration of the loop: rnd[k] is the number drawn, reduced to the range
\* 0 .. len - 2 that randrange(0, len - 1) draws from (len >= 2).
Alg9LineIndex(LineList, rnd, k) ==
    rnd[((k - 1) % Len(rnd)) + 1] % (Len(LineList) - 1)

\* The growing loop of algorithm 9 ("while FoundTri == False") from its k-th
\* iteration.  An empty range of randrange raises ValueError; no owning
\* triangle raises IndexError.  outcomes = <<>>: the candidate is validated
\* by ValidTriangle and ValidPoint, as in the source; otherwise outcomes[k] is
\* taken for the result of the validation of the k-th candidate.  The local
\* operators are the stretches of the loop body, each handing the variables
\* it has assigned to the next.
RECURSIVE Alg9GrowWith(_, _, _, _, _, _)
Alg9GrowWith(pb, Height, TriCol, rnd, outcomes, k) ==
    IF Len(pb.LineList) - 1 < 1 THEN Raised(pb, <<>>)
    ELSE LET popped(l, LineIndex) ==
                 SubSeq(l, 1, LineIndex) \o SubSeq(l, LineIndex + 2, Len(l))
             \* if self.ValidTriangle(Triangle) and self.ValidPoint(Point): ...
             \* self.LineList.pop(LineIndex)
             Validate(LineIndex, Line, Point, Triangle) ==
                 IF IF outcomes = <<>>
                    THEN ValidTriangle(Triangle, pb.TriangleList) /\ ValidPoint(Point)
                    ELSE outcomes[((k - 1) % Len(outcomes)) + 1]
                 THEN Result([pb EXCEPT
                                !.LineList = popped(pb.LineList
                                                    \o << <<Line[1], Point>>, <<Line[2], Point>> >>,
                                                    LineIndex),
                                !.TriangleList = Append(pb.TriangleList, Triangle)],
                             <<makeTriangle(Triangle[1][1], Triangle[1][2], Triangle[2][1],
                                            Triangle[2][2], Triangle[3][1], Triangle[3][2],
                                            1, TriCol)>>)
                 ELSE Alg9GrowWith([pb EXCEPT !.LineList = popped(pb.LineList, LineIndex)],
                                   Height, TriCol, rnd, outcomes, k + 1)
             \* Point = [...]; Triangle = [Line[0], Line[1], Point]
             Raise(LineIndex, Line, TriPoint, DeltaX, DeltaY, Distance) ==
                 IF Distance = 0 THEN Raised(pb, <<>>)
                 ELSE Validate(LineIndex, Line,
                               <<TriPoint[1] + (DeltaX * (Height + Distance)) \div Distance,
                                 TriPoint[2] + (DeltaY * (Height + Distance)) \div Distance>>,
                               <<Line[1], Line[2],
                                 <<TriPoint[1] + (DeltaX * (Height + Distance)) \div Distance,
                                   TriPoint[2] + (DeltaY * (Height + Distance)) \div Distance>> >>)
             \* DeltaX, DeltaY, Distance
             Measure(LineIndex, Line, MidPoint, TriPoint) ==
                 Raise(LineIndex, Line, TriPoint,
                       MidPoint[1] - TriPoint[1], MidPoint[2] - TriPoint[2],
                       Sqrt((MidPoint[1] - TriPoint[1]) * (MidPoint[1] - TriPoint[1])
                            + (MidPoint[2] - TriPoint[2]) * (MidPoint[2] - TriPoint[2])))
             \* the two bisected lines of the owning triangle, MidPoint, TriPoint
             Bisect(LineIndex, Line, UsedTri, Lines) ==
                 IF UsedTri = <<>> THEN Raised(pb, <<>>)
                 ELSE IF Alg9DivZero(Lines[1], Lines[2]) THEN Raised(pb, <<>>)
                 ELSE Measure(LineIndex, Line,
                              <<(Line[1][1] + Line[2][1]) \div 2, (Line[1][2] + Line[2][2]) \div 2>>,
                              Alg9TriPoint(Lines[1], Lines[2]))
             \* UsedTri
             Own(LineIndex, Line, UsedTri) ==
                 Bisect(LineIndex, Line, UsedTri, Alg9Bisected(UsedTri))
             \* Line = self.LineList[LineIndex]
             Pick(LineIndex, Line) ==
                 Own(LineIndex, Line,
                     Alg9UsedTri(pb.TriangleList, Line, Len(pb.TriangleList)))
         IN  Pick(Alg9LineIndex(pb.LineList, rnd, k),
                  pb.LineList[Alg9LineIndex(pb.LineList, rnd, k) + 1])

\* algorithm9(data, spect): the seed on the first call, then one grown
\* triangle per call, then (with no edges left) the stored triangles in turn.
\* outcomes as in Alg9GrowWith.
algorithm9With(pb, data, spect, rnd, outcomes) ==
    IF Len(pb.RLData) < 1 \/ data = <<>> THEN Raised(pb, <<>>)
    ELSE LET R      == pb.RLData
             TriCol == <<data[1] * 10, 255, 130, 255>>
         IN  IF R[1] # 0
             THEN LET Point1 == <<0, 50>>
                      Point2 == <<43, -25>>
                      Point3 == <<-43, -25>>
                  IN  Result([pb EXCEPT
                                !.LineList = pb.LineList \o << <<Point1, Point2>>,
                                                               <<Point2, Point3>>,
                                                               <<Point3, Point1>> >>,
                                !.TriangleList = Append(pb.TriangleList,
                                                        <<Point1, Point2, Point3>>),
                                !.RLData = [R EXCEPT ![1] = 0]],
                             <<makeTriangle(0, 50, 43, -25, -43, -25, 1, TriCol)>>)
             ELSE IF Len(pb.LineList) > 0
             THEN Alg9GrowWith(pb, SpectRamp(spect, 80, 20, 60, 20), TriCol, rnd,
                               outcomes, 1)
             ELSE IF Len(R) < 3 \/ R[3] < 0 \/ R[3] >= Len(pb.TriangleList)
             THEN Raised(pb, <<>>)
             ELSE LET Triangle == pb.TriangleList[R[3] + 1]
                      bumped   == R[3] + 1
                  IN  Result([pb EXCEPT !.RLData = [R EXCEPT ![3] =
                                  IF bumped > Len(pb.TriangleList) - 1 THEN 0 ELSE bumped]],
                             <<makeTriangle(Triangle[1][1], Triangle[1][2], Triangle[2][1],
                                            Triangle[2][2], Triangle[3][1], Triangle[3][2],
                                            1, TriCol)>>)

\* algorithm9 as the source has it.
algorithm9(pb, data, spect, rnd) == algorithm9With(pb, data, spect, rnd, <<>>)

\* A slip of the gateway: algorithm 1 places its mark at a random position
\* (as the algorithm1 the source keeps commented out did).
drawRandom(currentAlgorithm, pb, numfreq, data, datapos, spectdata, active, rnd) ==
    CASE currentAlgorithm = 1 -> algorithm12(pb, data, rnd[1], rnd[2])
      [] currentAlgorithm \in 2..5 -> algorithmTrail(currentAlgorithm, pb, data, spectdata)
      [] currentAlgorithm = 6 -> algorithm6(pb, data, spectdata)
      [] currentAlgorithm = 7 -> algorithm7(pb, data, spectdata)
      [] currentAlgorithm = 8 -> algorithm8(pb, data, spectdata)
      [] currentAlgorithm = 9 -> algorithm9(pb, data, spectdata, rnd)
      [] currentAlgorithm = 10 -> algorithm10(pb, data, spectdata)
      [] currentAlgorithm = 11 -> algorithm11(pb, data, datapos)
      [] currentAlgorithm = 12 -> algorithm12(pb, data, rnd[1], rnd[2])
      [] currentAlgorithm = 13 -> algorithm13(pb, data, active)
      [] OTHER -> Result(pb, <<>>)

\* PaintBrush.draw(data, datapos, spectdata, active): the gateway.  numfreq
\* is len(self.fl) as algorithm1 reads it; rnd holds the random draws of the
\* call (algorithm 9's edge picks; algorithm 12's x and y in rnd[1], rnd[2]).
\* An algorithm number outside 1..13 does nothing.
draw(currentAlgorithm, pb, numfreq, data, datapos, spectdata, active, rnd) ==
    CASE currentAlgorithm = 1 -> algorithm1(pb, numfreq, data, datapos)
      [] currentAlgorithm \in 2..5 -> algorithmTrail(currentAlgorithm, pb, data, spectdata)
      [] currentAlgorithm = 6 -> algorithm6(pb, data, spectdata)
      [] currentAlgorithm = 7 -> algorithm7(pb, data, spectdata)
      [] currentAlgorithm = 8 -> algorithm8(pb, data, spectdata)
      [] currentAlgorithm = 9 -> algorithm9(pb, data, spectdata, rnd)
      [] currentAlgorithm = 10 -> algorithm10(pb, data, spectdata)
      [] currentAlgorithm = 11 -> algorithm11(pb, data, datapos)
      [] currentAlgorithm = 12 -> algorithm12(pb, data, rnd[1], rnd[2])
      [] currentAlgorithm = 13 -> algorithm13(pb, data, active)
      [] OTHER -> Result(pb, <<>>)

\* ---------------------------------------------------------------- analysis
\* A slip of the loop of getMaxFreq: ">=" for ">", so the last of several
\* maximal bins wins.
RECURSIVE MaxFreqFromLast(_, _, _, _, _)
MaxFreqFromLast(spec, freq, j, maxspec, maxfreq) ==
    IF j > Len(spec) THEN maxfreq
    ELSE IF spec[j] >= maxspec THEN MaxFreqFromLast(spec, freq, j + 1, spec[j], freq[j])
    ELSE MaxFreqFromLast(spec, freq, j + 1, maxspec, maxfreq)

\* getMaxFreq(spec, freq) from index j on, with the running maxima.
RECURSIVE MaxFreqFrom(_, _, _, _, _)
MaxFreqFrom(spec, freq, j, maxspec, maxfreq) ==
    IF j > Len(spec) THEN maxfreq
    ELSE IF spec[j] > maxspec THEN MaxFreqFrom(spec, freq, j + 1, spec[j], freq[j])
    ELSE MaxFreqFrom(spec, freq, j + 1, maxspec, maxfreq)

\* getMaxFreq: the frequency of the first bin of greatest magnitude; 0 for an
\* empty spectrum or frequency array.
getMaxFreq(spec, freq) ==
    IF Len(spec) = 0 \/ Len(freq) = 0 THEN 0
    ELSE MaxFreqFrom(spec, freq, 1, spec[1], freq[1])

\* max(channelFreqs).
RECURSIVE MaxOf(_)
MaxOf(s) == IF Len(s) = 1 THEN s[1]
            ELSE LET m == MaxOf(Tail(s)) IN IF s[1] >= m THEN s[1] ELSE m

freqcap == 8500

\* CorSpect as the loop "for i in range(len(channelFreqs)): if channelFreqs[i]
\* == maxfreqch: CorSpect = spect[i]" leaves it: spect is the spectrum of the
\* last channel analysed and i a channel index.
RECURSIVE CorSpectFrom(_, _, _, _, _)
CorSpectFrom(channelFreqs, maxfreqch, spect, i, CorSpect) ==
    IF i > Len(channelFreqs) THEN CorSpect
    ELSE CorSpectFrom(channelFreqs, maxfreqch, spect, i + 1,
                      IF channelFreqs[i] = maxfreqch THEN spect[i] ELSE CorSpect)

\* A slip of the cap test: ">=" for ">", so a frame at freqcap is zeroed.
AnalyseCapSlip(spects, freq) ==
    LET channelFreqs == [k \in 1..Len(spects) |-> getMaxFreq(spects[k], freq)]
        maxfreqch    == MaxOf(channelFreqs)
        CorSpect     == CorSpectFrom(channelFreqs, maxfreqch, spects[Len(spects)], 1, 0)
    IN  [channelFreqs |-> IF maxfreqch >= freqcap THEN <<0, 0>> ELSE channelFreqs,
         CorSpect |-> CorSpect]

\* One pass of the analysis loop body (dotheplay's precompute loop and
\* dotherecord's loop share it): spects holds the spectrum of each channel of
\* the chunk and freq the bin frequencies.  Returns the channelFreqs stored
\* in the frequency list and CorSpect.
Analyse(spects, freq) ==
    LET channelFreqs == [k \in 1..Len(spects) |-> getMaxFreq(spects[k], freq)]
        maxfreqch    == MaxOf(channelFreqs)
        CorSpect     == CorSpectFrom(channelFreqs, maxfreqch, spects[Len(spects)], 1, 0)
    IN  [channelFreqs |-> IF maxfreqch > freqcap THEN <<0, 0>> ELSE channelFreqs,
         CorSpect |-> CorSpect]

\* The test of the slicing loop "while start + chunk <= samples" of
\* dotheplay, and the number of slices the loop appends, counted from start.
\* A slip of the slicing loop: "<" for "<=".
SliceFitsStrict(start, chunk, samples) == start + chunk < samples

SliceFits(start, chunk, samples) == start + chunk <= samples

RECURSIVE Slices(_, _, _)
Slices(start, chunk, samples) ==
    IF SliceFits(start, chunk, samples) THEN 1 + Slices(start + chunk, chunk, samples) ELSE 0

\* A slip of the flag: the tenth of the list is a split position as well.
PlayFlagTenth(i, n) ==
    ~(i = n - 1 \/ \E k \in 2..10 : i = n \div k)

\* The flag dotheplay hands to draw for frame i of n: False at the last
\* frame and at floor(n / k), k = 2..9.
PlayFlag(i, n) ==
    ~(i = n - 1 \/ \E k \in 2..9 : i = n \div k)

\* A slip of the flag of dotherecord: every twentieth position.
RecordFlagTwentieth(pos) == ~(pos % 20 = 0)

\* The flag dotherecord hands to draw for position pos.
RecordFlag(pos) == ~(pos % 10 = 0)

\* ------------------------------------------------------------------ state
VARIABLES
    loadedFilename,      \* MusicPainter.loadedFilename, "" when no file is open
    music_thread,        \* MusicPainter.music_thread: 0 (None) or a thread
    playsoundstop,       \* the shared stop flag
    threads,             \* the Thread objects created so far, by identity
    rl,                  \* RenderList.renderlist
    renderAll,           \* ObjectListViewer.renderAll
    lastRenderListSize,  \* ObjectListViewer.lastRenderListSize
    updates,             \* the paint request canvas.update() has posted
    paint,               \* the paintEvent in progress on the GUI thread
    lastPaint,           \* what the last paintEvent did (observation)
    algorithmNum,        \* algorithmNum.currentIndex()
    ChunkSizesList,      \* MusicPainter.ChunkSizesList
    chunkSize,           \* chunkSize.currentIndex()
    paintbrush,          \* the PaintBrush object
    freqlist,            \* MusicPainter.freqlist: 0 (None) or the recording whose list it is
    recorded,            \* the list each dotherecord created for freqlist
    freqList,            \* MusicPainter.freqList (dotheplay)
    SpectList,           \* MusicPainter.SpectList (dotheplay)
    algorithmFlag,       \* MusicPainter.algorithmFlag
    calls,               \* generator calls made (SpecAlg), pan moves made (SpecView)
    adding,              \* objects the generator call in progress has yet to add (SpecAlg)
    an,                  \* one run of the playback analysis (SpecAnalysis)
    viewer,              \* the ObjectListViewer: zoom, centre, bounds, mouse, size
    warning              \* the title of the last QMessageBox.warning shown, "" when none

vars == <<loadedFilename, music_thread, playsoundstop, threads, rl, renderAll,
          lastRenderListSize, updates, paint, lastPaint, algorithmNum,
          ChunkSizesList, chunkSize, paintbrush, freqlist, recorded, freqList,
          SpectList, algorithmFlag, calls, adding, an, viewer, warning>>

ThreadIds == 1..MaxThreads

\* A Thread object not yet constructed.  stopped and after observe the
\* thread for the cancellation claim: a Stop found it alive, and the number
\* of draw calls it began after that.
NoThread ==
    [target |-> "none", state |-> "unborn", pc |-> "none", i |-> 0,
     stopped |-> FALSE, after |-> 0]

AllChunkSizes == <<1024, 2048, 4096, 8192, 16384, 32768, 65536, 131072>>

TriangleChunkSizes == <<16384, 32768, 65536, 131072>>

NoPaint == [pc |-> "idle", all |-> TRUE, prev |-> 0, i |-> 0, stop |-> 0,
            ops |-> <<>>, worker |-> FALSE]

NoAnalysis == [pc |-> "idle", chunk |-> 0, samples |-> 0, channels |-> 0,
               k |-> 0, start |-> 0, soundslices |-> <<>>, channelChunks |-> <<>>,
               i |-> 0]

\* updateScreenBounds: the window [-1, 1] x [-1, 1], widened on the longer
\* axis of the widget, scaled by 1 / zoomfactor and centred on center.
ScreenBounds(v) ==
    LET ww  == v.width
        wh  == v.height
        fx  == IF ww >= wh THEN (ww * Scale) \div wh ELSE Scale
        fy  == IF ww >= wh THEN Scale ELSE (wh * Scale) \div ww
        fxz == (fx * Scale) \div v.zoomfactor
        fyz == (fy * Scale) \div v.zoomfactor
    IN  <<v.center[1] - fxz, v.center[1] + fxz, v.center[2] - fyz, v.center[2] + fyz>>

\* ObjectListViewer.__init__, for a square widget of 400 pixels; zoomfactor,
\* center and screen in thousandths, the mouse position in pixels.
\* leftButton is not a field of the object: it is the left button as the
\* window system has it, which the events report.
ViewerInit ==
    [screen |-> <<-Scale, Scale, -Scale, Scale>>, zoomfactor |-> Scale,
     center |-> <<0, 0>>, mousePosition |-> <<0, 0>>, mouseDown |-> FALSE,
     width |-> 400, height |-> 400, leftButton |-> FALSE]

\* The state MusicPainter.__init__ leaves, the window about to be shown.
Init ==
    /\ loadedFilename = ""
    /\ music_thread = 0
    /\ playsoundstop = FALSE
    /\ threads = [t \in ThreadIds |-> NoThread]
    /\ rl = RLClear
    /\ renderAll = TRUE
    /\ lastRenderListSize = 0
    /\ updates = [pending |-> TRUE, worker |-> FALSE]
    /\ paint = NoPaint
    /\ lastPaint = [result |-> "none", worker |-> FALSE]
    /\ algorithmNum = 0
    /\ ChunkSizesList = AllChunkSizes
    /\ chunkSize = 4
    /\ paintbrush = PaintBrushInit
    /\ freqlist = 0
    /\ recorded = [t \in ThreadIds |-> <<>>]
    /\ freqList = <<>>
    /\ SpectList = <<>>
    /\ algorithmFlag = TRUE
    /\ calls = 0
    /\ adding = <<>>
    /\ an = NoAnalysis
    /\ viewer = ViewerInit
    /\ warning = ""

\* The GUI thread runs one handler at a time: a button slot cannot start
\* while paintEvent is running.
GuiIdle == paint.pc = "idle"

Alive(t) == threads[t].state = "alive"

Unborn == {t \in ThreadIds : threads[t].state = "unborn"}

\* The Thread object the next Thread(...) call constructs.
FreshThread == CHOOSE t \in Unborn : \A u \in Unborn : t <= u

\* The loaded file: one channel, MaxFrames chunks at the default chunk size.
\* Chunk j's spectrum peaks at 220 Hz (odd j) or 440 Hz (even j).
SongSamples == MaxFrames * AllChunkSizes[5]

SongFreq == <<0, 220, 440>>

SongSpects(j) == IF j % 2 = 1 THEN << <<1, 9, 3>> >> ELSE << <<1, 3, 9>> >>

\* What the microphone delivers for the chunk at position pos of a
\* recording: a peak at 220 Hz, then one at 9000 Hz, above freqcap, in turn.
MicFreq == <<0, 220, 9000>>

MicSpect(pos) == IF pos % 2 = 0 THEN <<1, 9, 3>> ELSE <<1, 3, 9>>

\* The random draws one generator call may consume: the edge picks of
\* algorithm 9 and the position of algorithm 12; the other generators draw
\* none.
RndChoices(alg) ==
    IF alg = 9 THEN {<<a, b>> : a \in 0..1, b \in 0..1}
    ELSE IF alg = 12 THEN {<<x, y>> : x \in {-500, 500}, y \in {0}}
    ELSE {<<0, 0>>}

\* len(self.fl) as algorithm1 evaluates it: -1 stands for the TypeError of
\* len(None).
NumFreq(pb, lists) == IF pb.fl = 0 THEN -1 ELSE Len(lists[pb.fl])

\* ----------------------------------------------------------- GUI handlers
\* The files the dialog of openFile may return.
FileNames == {"song.wav", "memo.wav"}

\* openFile: the dialog returns file_name, "" when the user cancels; readable
\* says whether wavfile.read and wave.open both read the file.  The filename
\* is set after both have; otherwise the except branch warns.
openFile(file_name, readable) ==
    /\ GuiIdle
    /\ IF file_name = ""
       THEN UNCHANGED <<loadedFilename, warning>>
       ELSE IF readable
       THEN /\ loadedFilename' = file_name
            /\ UNCHANGED warning
       ELSE /\ warning' = "File Not Loaded"
            /\ UNCHANGED loadedFilename
    /\ UNCHANGED <<music_thread, playsoundstop, threads, rl, renderAll,
                   lastRenderListSize, updates, paint, lastPaint, algorithmNum,
                   ChunkSizesList, chunkSize, paintbrush, freqlist, recorded,
                   freqList, SpectList, algorithmFlag, calls, adding, an,
                   viewer>>

\* checkFile: a file is loaded and, now, wavfile.read and wave.open both read
\* it (readable).
checkFile(readable) == loadedFilename # "" /\ readable

\* The warning checkFile shows when it returns False.
checkFileWarning == IF loadedFilename = "" THEN "File Not Opened"
                    ELSE "File Could Not be Loaded"

\* Thread(target=...).start() on a Thread object made in this handler.  The
\* playmusic argument of dotheplay decides only whether the audio is written
\* to the output stream, which is no state here.
Started(target) ==
    [NoThread EXCEPT !.target = target, !.state = "alive", !.pc = "start"]

\* A slip of the body of renderImage and PlaySoundData: the stop flag is
\* cleared before the file is checked.
StartPlaybackSlip(playmusic, readable) ==
    /\ GuiIdle
    /\ playsoundstop' = FALSE
    /\ IF ~checkFile(readable)
       THEN /\ warning' = checkFileWarning
            /\ UNCHANGED <<music_thread, threads>>
       ELSE IF music_thread = 0
       THEN /\ Unborn # {}
            /\ music_thread' = FreshThread
            /\ threads' = [threads EXCEPT ![FreshThread] = Started("dotheplay")]
            /\ UNCHANGED warning
       ELSE UNCHANGED <<music_thread, threads, warning>>
    /\ UNCHANGED <<loadedFilename, rl, renderAll, lastRenderListSize, updates,
                   paint, lastPaint, algorithmNum, ChunkSizesList, chunkSize,
                   paintbrush, freqlist, recorded, freqList, SpectList,
                   algorithmFlag, calls, adding, an, viewer>>

\* The body renderImage and PlaySoundData share; playmusic is the argument
\* the new Thread gets, readable what checkFile finds of the file.  start()
\* on a Thread object that has run raises RuntimeError after playsoundstop
\* was set to False.
StartPlayback(playmusic, readable) ==
    /\ GuiIdle
    /\ IF ~checkFile(readable)
       THEN /\ warning' = checkFileWarning
            /\ UNCHANGED <<music_thread, playsoundstop, threads>>
       ELSE IF music_thread = 0
       THEN /\ Unborn # {}
            /\ music_thread' = FreshThread
            /\ playsoundstop' = FALSE
            /\ threads' = [threads EXCEPT ![FreshThread] = Started("dotheplay")]
            /\ UNCHANGED warning
       ELSE IF Alive(music_thread)
       THEN UNCHANGED <<music_thread, playsoundstop, threads, warning>>
       ELSE /\ playsoundstop' = FALSE
            /\ UNCHANGED <<music_thread, threads, warning>>
    /\ UNCHANGED <<loadedFilename, rl, renderAll, lastRenderListSize, updates,
                   paint, lastPaint, algorithmNum, ChunkSizesList, chunkSize,
                   paintbrush, freqlist, recorded, freqList, SpectList,
                   algorithmFlag, calls, adding, an, viewer>>

renderImage(readable) == StartPlayback(FALSE, readable)

PlaySoundData(readable) == StartPlayback(TRUE, readable)

\* playsoundstop = True; music_thread = None.  Every thread alive now is
\* marked as having been told to stop.
StopRequest ==
    /\ playsoundstop' = TRUE
    /\ music_thread' = 0
    /\ threads' = [t \in ThreadIds |->
                     IF Alive(t) THEN [threads[t] EXCEPT !.stopped = TRUE] ELSE threads[t]]

StopSoundData ==
    /\ GuiIdle
    /\ StopRequest
    /\ UNCHANGED <<loadedFilename, rl, renderAll, lastRenderListSize, updates,
                   paint, lastPaint, algorithmNum, ChunkSizesList, chunkSize,
                   paintbrush, freqlist, recorded, freqList, SpectList,
                   algorithmFlag, calls, adding, an, viewer, warning>>

StopRecordData ==
    /\ GuiIdle
    /\ StopRequest
    /\ UNCHANGED <<loadedFilename, rl, renderAll, lastRenderListSize, updates,
                   paint, lastPaint, algorithmNum, ChunkSizesList, chunkSize,
                   paintbrush, freqlist, recorded, freqList, SpectList,
                   algorithmFlag, calls, adding, an, viewer, warning>>

RecordSoundData ==
    /\ GuiIdle
    /\ IF music_thread = 0
       THEN /\ Unborn # {}
            /\ music_thread' = FreshThread
            /\ playsoundstop' = FALSE
            /\ threads' = [threads EXCEPT ![FreshThread] = Started("dotherecord")]
       ELSE IF Alive(music_thread)
       THEN StopRequest
       ELSE /\ playsoundstop' = FALSE
            /\ UNCHANGED <<music_thread, threads>>
    /\ UNCHANGED <<loadedFilename, rl, renderAll, lastRenderListSize, updates,
                   paint, lastPaint, algorithmNum, ChunkSizesList, chunkSize,
                   paintbrush, freqlist, recorded, freqList, SpectList,
                   algorithmFlag, calls, adding, an, viewer, warning>>

\* clearImage: rl.clear() and canvas.update().
clearImage ==
    /\ GuiIdle
    /\ rl' = RLClear
    /\ updates' = [updates EXCEPT !.pending = TRUE]
    /\ UNCHANGED <<loadedFilename, music_thread, playsoundstop, threads,
                   renderAll, lastRenderListSize, paint, lastPaint, algorithmNum,
                   ChunkSizesList, chunkSize, paintbrush, freqlist, recorded,
                   freqList, SpectList, algorithmFlag, calls, adding, an,
                   viewer, warning>>

\* A slip of resetRLData: index 6 calls the initializer of algorithm 8.
ResetForSlip(index, pb) ==
    IF index = 5 THEN SetAlg6(pb)
    ELSE IF index \in 1..4 THEN SetAlg2345(pb)
    ELSE IF index = 6 THEN SetAlg8(pb)
    ELSE IF index = 7 THEN SetAlg8(pb)
    ELSE IF index = 8 THEN SetAlg9(pb)
    ELSE IF index = 9 THEN SetAlg10(pb)
    ELSE IF index = 12 THEN SetAlg13(pb)
    ELSE pb

\* The initializer resetRLData calls for combo index index; none for 0, 10
\* and 11.
ResetFor(index, pb) ==
    IF index = 5 THEN SetAlg6(pb)
    ELSE IF index \in 1..4 THEN SetAlg2345(pb)
    ELSE IF index = 6 THEN SetAlg7(pb)
    ELSE IF index = 7 THEN SetAlg8(pb)
    ELSE IF index = 8 THEN SetAlg9(pb)
    ELSE IF index = 9 THEN SetAlg10(pb)
    ELSE IF index = 12 THEN SetAlg13(pb)
    ELSE pb

\* A slip of the chunk-size list of resetRLData: only index 5 (algorithm 6)
\* is treated as a triangle algorithm.
ResetChunkListSlip(index) == IF index = 5 THEN TriangleChunkSizes ELSE AllChunkSizes

\* The chunk-size list resetRLData installs for combo index index.
ResetChunkList(index) ==
    IF index = 5 \/ index = 8 THEN TriangleChunkSizes ELSE AllChunkSizes

\* A slip of the index remapping: coming back from the short list the index
\* is kept as it is.
ResetChunkIndexSlip(index, list, current) ==
    IF index = 5 \/ index = 8
    THEN IF list[1] = 1024
         THEN IF current >= 5 /\ current <= 7 THEN current - 4 ELSE 0
         ELSE current
    ELSE IF list[1] = 16384
         THEN IF current >= 1 /\ current <= 3 THEN current ELSE 4
         ELSE current

\* The chunk-size index resetRLData leaves for combo index index.
ResetChunkIndex(index, list, current) ==
    IF index = 5 \/ index = 8
    THEN IF list[1] = 1024
         THEN IF current >= 5 /\ current <= 7 THEN current - 4 ELSE 0
         ELSE current
    ELSE IF list[1] = 16384
         THEN IF current >= 1 /\ current <= 3 THEN current + 4 ELSE 4
         ELSE current

\* resetRLData, the slot of algorithmNum.currentIndexChanged: the user has
\* moved the algorithm combo to index.
resetRLData(index) ==
    /\ GuiIdle
    /\ index # algorithmNum
    /\ algorithmNum' = index
    /\ paintbrush' = ResetFor(index, paintbrush)
    /\ ChunkSizesList' = ResetChunkList(index)
    /\ chunkSize' = ResetChunkIndex(index, ChunkSizesList, chunkSize)
    /\ UNCHANGED <<loadedFilename, music_thread, playsoundstop, threads, rl,
                   renderAll, lastRenderListSize, updates, paint, lastPaint,
                   freqlist, recorded, freqList, SpectList, algorithmFlag, calls, adding, an,
                   viewer, warning>>

\* ---------------------------------------------------------------- workers
At(t, target, pc) ==
    /\ Alive(t)
    /\ threads[t].target = target
    /\ threads[t].pc = pc

\* rl.add of each object of objs, in order.
RECURSIVE AddAll(_, _)
AddAll(renderlist, objs) ==
    IF objs = <<>> THEN renderlist
    ELSE AddAll(RLAdd(renderlist, Head(objs)), Tail(objs))

\* The frequency and spectrum lists the precompute loop builds for a file
\* of n chunks.
Precomputed(n) ==
    [freqList  |-> [j \in 1..n |-> Analyse(SongSpects(j), SongFreq).channelFreqs],
     SpectList |-> [j \in 1..n |-> Analyse(SongSpects(j), SongFreq).CorSpect]]

\* The test "i < len(self.freqList) and (not self.playsoundstop)" of
\* dotheplay at index i, and the thread going on to draw frame i or to close.
PlayTest(i, n, stop) == i < n /\ ~stop

Polled(th, i, n, stop) ==
    [th EXCEPT !.i = i, !.pc = IF PlayTest(i, n, stop) THEN "draw" ELSE "close"]

\* The thread after the generator call of its iteration returned r.
Drawn(th, r) ==
    [th EXCEPT !.state = IF r.err THEN "crashed" ELSE "alive",
               !.pc = IF r.err THEN "none" ELSE "shown",
               !.after = IF th.stopped /\ th.after < 2 THEN th.after + 1 ELSE th.after]

\* dotheplay from its first line to the first test of its loop: chunk and
\* currentAlgorithm are read, the file is sliced and analysed into freqList
\* and SpectList, resetlistlinks rebinds paintbrush.fl.
PlayStart(t) ==
    /\ At(t, "dotheplay", "start")
    /\ LET n == Slices(0, ChunkSizesList[chunkSize + 1], SongSamples)
       IN  /\ freqList' = Precomputed(n).freqList
           /\ SpectList' = Precomputed(n).SpectList
           /\ threads' = [threads EXCEPT ![t] = Polled(threads[t], 0, n, playsoundstop)]
           /\ algorithmFlag' = IF PlayTest(0, n, playsoundstop)
                               THEN PlayFlag(0, n) ELSE algorithmFlag
    /\ paintbrush' = [paintbrush EXCEPT !.currentAlgorithm = algorithmNum + 1,
                                        !.fl = freqlist]
    /\ UNCHANGED <<loadedFilename, music_thread, playsoundstop, rl, renderAll,
                   lastRenderListSize, updates, paint, lastPaint, algorithmNum,
                   ChunkSizesList, chunkSize, freqlist, recorded, calls, adding, an,
                   viewer, warning>>

\* One loop body of dotheplay up to canvas.update(): the generator runs on
\* frame i and adds its objects, renderAll is set to False and the update is
\* posted.  An exception of the generator ends the thread, music_thread left
\* as it is.  When self.freqList has been replaced by a shorter list the
\* inner "if i < len(self.freqList)" skips the frame.
PlayDraw(t) ==
    /\ At(t, "dotheplay", "draw")
    /\ LET i == threads[t].i
       IN  IF i < Len(freqList)
           THEN \E rnd \in RndChoices(paintbrush.currentAlgorithm) :
                  LET r == draw(paintbrush.currentAlgorithm, paintbrush,
                                NumFreq(paintbrush, recorded), freqList[i + 1], i,
                                SpectList[i + 1], algorithmFlag, rnd)
                  IN  /\ paintbrush' = r.pb
                      /\ rl' = AddAll(rl, r.objs)
                      /\ threads' = [threads EXCEPT ![t] = Drawn(threads[t], r)]
                      /\ renderAll' = IF r.err THEN renderAll ELSE FALSE
                      /\ updates' = IF r.err THEN updates
                                    ELSE [pending |-> TRUE, worker |-> TRUE]
                      /\ UNCHANGED algorithmFlag
           ELSE /\ threads' = [threads EXCEPT
                                 ![t] = Polled(threads[t], i + 1, Len(freqList), playsoundstop)]
                /\ algorithmFlag' = IF PlayTest(i + 1, Len(freqList), playsoundstop)
                                    THEN PlayFlag(i + 1, Len(freqList)) ELSE algorithmFlag
                /\ UNCHANGED <<paintbrush, rl, renderAll, updates>>
    /\ UNCHANGED <<loadedFilename, music_thread, playsoundstop,
                   lastRenderListSize, paint, lastPaint, algorithmNum,
                   ChunkSizesList, chunkSize, freqlist, recorded, freqList,
                   SpectList, calls, adding, an, viewer, warning>>

\* "self.canvas.renderAll = True", the audio write, i += 1 and the next test
\* of the loop.
PlayShown(t) ==
    /\ At(t, "dotheplay", "shown")
    /\ renderAll' = TRUE
    /\ LET i == threads[t].i + 1
       IN  /\ threads' = [threads EXCEPT
                            ![t] = Polled(threads[t], i, Len(freqList), playsoundstop)]
           /\ algorithmFlag' = IF PlayTest(i, Len(freqList), playsoundstop)
                               THEN PlayFlag(i, Len(freqList)) ELSE algorithmFlag
    /\ UNCHANGED <<loadedFilename, music_thread, playsoundstop, rl,
                   lastRenderListSize, updates, paint, lastPaint, algorithmNum,
                   ChunkSizesList, chunkSize, paintbrush, freqlist, recorded,
                   freqList, SpectList, calls, adding, an, viewer, warning>>

\* The end of dotheplay: music_thread = None and canvas.update().
PlayClose(t) ==
    /\ At(t, "dotheplay", "close")
    /\ music_thread' = 0
    /\ updates' = [updates EXCEPT !.pending = TRUE]
    /\ threads' = [threads EXCEPT ![t].state = "done", ![t].pc = "none"]
    /\ UNCHANGED <<loadedFilename, playsoundstop, rl, renderAll,
                   lastRenderListSize, paint, lastPaint, algorithmNum,
                   ChunkSizesList, chunkSize, paintbrush, freqlist, recorded,
                   freqList, SpectList, algorithmFlag, calls, adding, an,
                   viewer, warning>>

\* dotherecord up to its loop: chunk and currentAlgorithm are read, the
\* stream is opened, self.freqlist is a new empty list and resetlistlinks
\* binds paintbrush.fl to it.
RecordStart(t) ==
    /\ At(t, "dotherecord", "start")
    /\ freqlist' = t
    /\ recorded' = [recorded EXCEPT ![t] = <<>>]
    /\ paintbrush' = [paintbrush EXCEPT !.currentAlgorithm = algorithmNum + 1, !.fl = t]
    /\ threads' = [threads EXCEPT ![t].pc = "loop"]
    /\ UNCHANGED <<loadedFilename, music_thread, playsoundstop, rl, renderAll,
                   lastRenderListSize, updates, paint, lastPaint, algorithmNum,
                   ChunkSizesList, chunkSize, freqList, SpectList, algorithmFlag,
                   calls, adding, an, viewer, warning>>

\* "while not self.playsoundstop", in a recording that captures at most
\* frames chunks.
RecordLoopUpTo(t, frames) ==
    /\ At(t, "dotherecord", "loop")
    /\ playsoundstop \/ threads[t].i < frames
    /\ threads' = [threads EXCEPT ![t].pc = IF playsoundstop THEN "close" ELSE "read"]
    /\ UNCHANGED <<loadedFilename, music_thread, playsoundstop, rl, renderAll,
                   lastRenderListSize, updates, paint, lastPaint, algorithmNum,
                   ChunkSizesList, chunkSize, paintbrush, freqlist, recorded,
                   freqList, SpectList, algorithmFlag, calls, adding, an,
                   viewer, warning>>

\* The loop test in a recording of at most MaxFrames chunks.
RecordLoop(t) == RecordLoopUpTo(t, MaxFrames)

\* One loop body of dotherecord up to canvas.update(): a chunk is read from
\* the stream and analysed, its channelFreqs are appended to self.freqlist
\* and, unless they are [0, 0], the generator runs as in PlayDraw.
RecordRead(t) ==
    /\ At(t, "dotherecord", "read")
    /\ LET spect == MicSpect(Len(recorded[freqlist]))
           a     == Analyse(<<spect>>, MicFreq)
           lists == [recorded EXCEPT ![freqlist] = Append(recorded[freqlist], a.channelFreqs)]
           pos   == Len(lists[freqlist]) - 1
           th    == [threads[t] EXCEPT !.i = @ + 1]
       IN    /\ recorded' = lists
             /\ IF a.channelFreqs # <<0, 0>>
                THEN /\ algorithmFlag' = RecordFlag(pos)
                     /\ \E rnd \in RndChoices(paintbrush.currentAlgorithm) :
                          LET r == draw(paintbrush.currentAlgorithm, paintbrush,
                                        NumFreq(paintbrush, lists), lists[freqlist][pos + 1],
                                        pos, a.CorSpect, RecordFlag(pos), rnd)
                          IN  /\ paintbrush' = r.pb
                              /\ rl' = AddAll(rl, r.objs)
                              /\ threads' = [threads EXCEPT ![t] = Drawn(th, r)]
                              /\ renderAll' = IF r.err THEN renderAll ELSE FALSE
                              /\ updates' = IF r.err THEN updates
                                            ELSE [pending |-> TRUE, worker |-> TRUE]
                ELSE /\ threads' = [threads EXCEPT ![t] = [th EXCEPT !.pc = "loop"]]
                     /\ UNCHANGED <<paintbrush, algorithmFlag, rl, renderAll, updates>>
    /\ UNCHANGED <<loadedFilename, music_thread, playsoundstop,
                   lastRenderListSize, paint, lastPaint, algorithmNum,
                   ChunkSizesList, chunkSize, freqlist, freqList, SpectList,
                   calls, adding, an, viewer, warning>>

\* "self.canvas.renderAll = True" and frames.append(data).
RecordShown(t) ==
    /\ At(t, "dotherecord", "shown")
    /\ renderAll' = TRUE
    /\ threads' = [threads EXCEPT ![t].pc = "loop"]
    /\ UNCHANGED <<loadedFilename, music_thread, playsoundstop, rl,
                   lastRenderListSize, updates, paint, lastPaint, algorithmNum,
                   ChunkSizesList, chunkSize, paintbrush, freqlist, recorded,
                   freqList, SpectList, algorithmFlag, calls, adding, an,
                   viewer, warning>>

\* The end of dotherecord: fullrecording is joined and music_thread = None.
RecordClose(t) ==
    /\ At(t, "dotherecord", "close")
    /\ music_thread' = 0
    /\ threads' = [threads EXCEPT ![t].state = "done", ![t].pc = "none"]
    /\ UNCHANGED <<loadedFilename, playsoundstop, rl, renderAll,
                   lastRenderListSize, updates, paint, lastPaint, algorithmNum,
                   ChunkSizesList, chunkSize, paintbrush, freqlist, recorded,
                   freqList, SpectList, algorithmFlag, calls, adding, an,
                   viewer, warning>>

\* --------------------------------------------------------------- painting
\* The draw routine paintEvent selects for an object by its tag obj[0].
RenderRoutine(obj) ==
    CASE obj[1] = 0 -> "RenderPoint"
      [] obj[1] = 1 -> "RenderLine"
      [] obj[1] = 2 -> "RenderCircle"
      [] obj[1] = 3 -> "RendeRectangle"
      [] obj[1] = 4 -> "RenderTriangle"
      [] OTHER      -> "none"

\* paintEvent up to its loop: updateScreenBounds first.  With renderAll set
\* the background is cleared
\* and the range of the loop is taken from rl.length(); otherwise
\* "renderstart = self.lastRendetListSize" reads an attribute no code ever
\* sets, and the AttributeError ends the paint with nothing drawn.
PaintBegin ==
    /\ GuiIdle
    /\ updates.pending
    /\ updates' = [pending |-> FALSE, worker |-> FALSE]
    /\ IF renderAll
       THEN /\ paint' = [pc |-> "loop", all |-> TRUE, prev |-> lastRenderListSize,
                         i |-> 0, stop |-> RLLength(rl), ops |-> <<>>,
                         worker |-> updates.worker]
            /\ UNCHANGED lastPaint
       ELSE /\ paint' = NoPaint
            /\ lastPaint' = [result |-> "AttributeError", worker |-> updates.worker]
    /\ viewer' = [viewer EXCEPT !.screen = ScreenBounds(viewer)]
    /\ UNCHANGED <<loadedFilename, music_thread, playsoundstop, threads, rl,
                   renderAll, lastRenderListSize, algorithmNum, ChunkSizesList,
                   chunkSize, paintbrush, freqlist, recorded, freqList, SpectList,
                   algorithmFlag, calls, adding, an, warning>>

\* One iteration of the loop: obj = rl.get(i) and the dispatch on obj[0],
\* which raises TypeError when get returned None.
PaintObject ==
    /\ paint.pc = "loop"
    /\ paint.i < paint.stop
    /\ LET obj == RLGet(rl, paint.i)
       IN  IF obj = None
           THEN /\ paint' = NoPaint
                /\ lastPaint' = [result |-> "TypeError", worker |-> paint.worker]
           ELSE /\ paint' = [paint EXCEPT
                               !.ops = Append(@, [i |-> paint.i, tag |-> obj[1],
                                                  routine |-> RenderRoutine(obj)]),
                               !.i = @ + 1]
                /\ UNCHANGED lastPaint
    /\ UNCHANGED <<loadedFilename, music_thread, playsoundstop, threads, rl,
                   renderAll, lastRenderListSize, updates, algorithmNum,
                   ChunkSizesList, chunkSize, paintbrush, freqlist, recorded,
                   freqList, SpectList, algorithmFlag, calls, adding, an,
                   viewer, warning>>

\* After the loop: the border rectangle and qp.end().
PaintBorder ==
    /\ paint.pc = "loop"
    /\ paint.i >= paint.stop
    /\ paint' = [paint EXCEPT !.pc = "border"]
    /\ UNCHANGED <<loadedFilename, music_thread, playsoundstop, threads, rl,
                   renderAll, lastRenderListSize, updates, lastPaint, algorithmNum,
                   ChunkSizesList, chunkSize, paintbrush, freqlist, recorded,
                   freqList, SpectList, algorithmFlag, calls, adding, an,
                   viewer, warning>>

\* "self.lastRenderListSize = rl.length()", the last line of paintEvent.
PaintEnd ==
    /\ paint.pc = "border"
    /\ lastRenderListSize' = RLLength(rl)
    /\ lastPaint' = [result |-> IF paint.all THEN "full" ELSE "incremental",
                     worker |-> paint.worker]
    /\ paint' = NoPaint
    /\ UNCHANGED <<loadedFilename, music_thread, playsoundstop, threads, rl,
                   renderAll, updates, algorithmNum, ChunkSizesList, chunkSize,
                   paintbrush, freqlist, recorded, freqList, SpectList,
                   algorithmFlag, calls, adding, an, viewer, warning>>

\* --------------------------------------------------------- specifications
\* Spec: the toolbar handlers and the worker threads they start, in every
\* interleaving; the canvas is not painted.
Next ==
    \/ \E file_name \in FileNames \cup {""}, readable \in BOOLEAN :
         openFile(file_name, readable)
    \/ \E readable \in BOOLEAN : renderImage(readable)
    \/ \E readable \in BOOLEAN : PlaySoundData(readable)
    \/ StopSoundData
    \/ RecordSoundData
    \/ StopRecordData
    \/ \E index \in 0..MaxAlgIndex : resetRLData(index)
    \/ \E t \in ThreadIds : PlayStart(t)
    \/ \E t \in ThreadIds : PlayDraw(t)
    \/ \E t \in ThreadIds : PlayShown(t)
    \/ \E t \in ThreadIds : PlayClose(t)
    \/ \E t \in ThreadIds : RecordStart(t)
    \/ \E t \in ThreadIds : RecordLoop(t)
    \/ \E t \in ThreadIds : RecordRead(t)
    \/ \E t \in ThreadIds : RecordShown(t)
    \/ \E t \in ThreadIds : RecordClose(t)

Spec == Init /\ [][Next]_vars

\* SpecPaint: rendering sessions (Render is never followed by Stop, so the
\* sessions follow one another), the Clear button and the paintEvent of the
\* canvas, in every interleaving.
NextPaint ==
    \/ \E file_name \in FileNames \cup {""}, readable \in BOOLEAN :
         openFile(file_name, readable)
    \/ \E readable \in BOOLEAN : renderImage(readable)
    \/ clearImage
    \/ \E index \in 0..MaxAlgIndex : resetRLData(index)
    \/ PaintBegin
    \/ PaintObject
    \/ PaintBorder
    \/ PaintEnd
    \/ \E t \in ThreadIds : PlayStart(t)
    \/ \E t \in ThreadIds : PlayDraw(t)
    \/ \E t \in ThreadIds : PlayShown(t)
    \/ \E t \in ThreadIds : PlayClose(t)

SpecPaint == Init /\ [][NextPaint]_vars

\* SpecAlg: one thread of control selects algorithms, clears the image,
\* starts sessions and feeds frames to the generator gateway, each rl.add a
\* step of its own.
\* In session: the generator gateway dispatches to the algorithm the combo
\* shows (a session has started since the combo last moved).
InSession == paintbrush.fl # 0 /\ paintbrush.currentAlgorithm = algorithmNum + 1

AlgData == { <<440, 300>>, <<220>> }

AlgSpect == {50000}

\* A session starts as dotherecord does: currentAlgorithm is read from the
\* combo, self.freqlist is a new list and resetlistlinks binds fl to it.
AlgStart ==
    /\ adding = <<>>
    /\ freqlist' = 1
    /\ recorded' = [recorded EXCEPT ![1] = <<>>]
    /\ paintbrush' = [paintbrush EXCEPT !.currentAlgorithm = algorithmNum + 1, !.fl = 1]
    /\ UNCHANGED <<loadedFilename, music_thread, playsoundstop, threads, rl,
                   renderAll, lastRenderListSize, updates, paint, lastPaint,
                   algorithmNum, ChunkSizesList, chunkSize, freqList, SpectList,
                   algorithmFlag, calls, adding, an, viewer, warning>>

\* One frame of the session: its channelFreqs are appended to the frequency
\* list and paintbrush.draw runs on them; the objects it adds are handed to
\* AlgAdd one by one.
AlgDraw ==
    /\ adding = <<>>
    /\ InSession
    /\ calls < MaxCalls
    /\ \E data \in AlgData, spectdata \in AlgSpect :
         LET lists == [recorded EXCEPT ![freqlist] = Append(recorded[freqlist], data)]
             pos   == Len(lists[freqlist]) - 1
         IN  /\ recorded' = lists
             /\ algorithmFlag' = RecordFlag(pos)
             /\ \E rnd \in RndChoices(paintbrush.currentAlgorithm) :
                  LET r == draw(paintbrush.currentAlgorithm, paintbrush,
                                NumFreq(paintbrush, lists), data, pos, spectdata,
                                RecordFlag(pos), rnd)
                  IN  /\ paintbrush' = r.pb
                      /\ adding' = r.objs
    /\ calls' = calls + 1
    /\ UNCHANGED <<loadedFilename, music_thread, playsoundstop, threads, rl,
                   renderAll, lastRenderListSize, updates, paint, lastPaint,
                   algorithmNum, ChunkSizesList, chunkSize, freqlist, freqList,
                   SpectList, an, viewer, warning>>

\* One self.rl.add(...) of the generator call in progress.
AlgAdd ==
    /\ adding # <<>>
    /\ rl' = RLAdd(rl, Head(adding))
    /\ adding' = Tail(adding)
    /\ UNCHANGED <<loadedFilename, music_thread, playsoundstop, threads,
                   renderAll, lastRenderListSize, updates, paint, lastPaint,
                   algorithmNum, ChunkSizesList, chunkSize, paintbrush, freqlist,
                   recorded, freqList, SpectList, algorithmFlag, calls, an,
                   viewer, warning>>

\* The algorithm combo and the Clear button, used between generator calls;
\* the combo is moved at program start and between sessions.
AlgSelect(index) ==
    /\ adding = <<>>
    /\ paintbrush.fl # 0 => InSession
    /\ resetRLData(index)

AlgClear == adding = <<>> /\ clearImage

NextAlg ==
    \/ \E index \in 0..12 : AlgSelect(index)
    \/ AlgStart
    \/ AlgDraw
    \/ AlgAdd
    \/ AlgClear

SpecAlg == Init /\ [][NextAlg]_vars

\* SpecAnalysis: one run of the playback analysis of dotheplay, from the
\* slicing of the channels to the end of the precompute loop, for every
\* chunk size, channel count and a range of sample counts around the
\* multiples of the chunk size.
MaxChannels == 2

SampleCounts(chunk) ==
    {q * chunk + d : q \in 0..MaxFrames, d \in {0, 1, chunk - 1}}

\* The spectra one chunk may have, per channel (bins at ChunkFreq).
ChunkFreq == <<0, 220, 9000>>

ChunkSpectra == { <<1, 9, 3>>, <<1, 3, 9>> }

InitAnalysis ==
    /\ loadedFilename = "song.wav"
    /\ music_thread = 0
    /\ playsoundstop = FALSE
    /\ threads = [t \in ThreadIds |-> NoThread]
    /\ rl = RLClear
    /\ renderAll = TRUE
    /\ lastRenderListSize = 0
    /\ updates = [pending |-> TRUE, worker |-> FALSE]
    /\ paint = NoPaint
    /\ lastPaint = [result |-> "none", worker |-> FALSE]
    /\ algorithmNum = 0
    /\ ChunkSizesList = AllChunkSizes
    /\ chunkSize \in 0..(Len(AllChunkSizes) - 1)
    /\ paintbrush = PaintBrushInit
    /\ freqlist = 0
    /\ recorded = [t \in ThreadIds |-> <<>>]
    /\ freqList = <<>>
    /\ SpectList = <<>>
    /\ algorithmFlag = TRUE
    /\ calls = 0
    /\ adding = <<>>
    /\ \E samples \in SampleCounts(AllChunkSizes[chunkSize + 1]), channels \in 1..MaxChannels :
         an = [NoAnalysis EXCEPT !.pc = "slice", !.chunk = AllChunkSizes[chunkSize + 1],
                                 !.samples = samples, !.channels = channels]
    /\ viewer = ViewerInit
    /\ warning = ""

\* One iteration of "while start + chunk <= samples" for channel k: the
\* slice at start joins soundslices (slices are kept by their start).
AnSlice ==
    /\ an.pc = "slice"
    /\ an.k < an.channels
    /\ SliceFits(an.start, an.chunk, an.samples)
    /\ an' = [an EXCEPT !.soundslices = Append(@, an.start), !.start = @ + an.chunk]
    /\ UNCHANGED <<loadedFilename, music_thread, playsoundstop, threads, rl,
                   renderAll, lastRenderListSize, updates, paint, lastPaint,
                   algorithmNum, ChunkSizesList, chunkSize, paintbrush, freqlist,
                   recorded, freqList, SpectList, algorithmFlag, calls, adding,
                   viewer, warning>>

\* The while loop ends for channel k: channelChunks.append(soundslices) and
\* the for loop goes on to the next channel.
AnChannel ==
    /\ an.pc = "slice"
    /\ an.k < an.channels
    /\ ~SliceFits(an.start, an.chunk, an.samples)
    /\ an' = [an EXCEPT !.channelChunks = Append(@, an.soundslices),
                        !.soundslices = <<>>, !.start = 0, !.k = @ + 1]
    /\ UNCHANGED <<loadedFilename, music_thread, playsoundstop, threads, rl,
                   renderAll, lastRenderListSize, updates, paint, lastPaint,
                   algorithmNum, ChunkSizesList, chunkSize, paintbrush, freqlist,
                   recorded, freqList, SpectList, algorithmFlag, calls, adding,
                   viewer, warning>>

\* All channels are sliced; the stream is opened and "self.freqList = []",
\* "self.SpectList = []" precede the precompute loop.
AnOpen ==
    /\ an.pc = "slice"
    /\ an.k = an.channels
    /\ an' = [an EXCEPT !.pc = "precompute", !.i = 0]
    /\ freqList' = <<>>
    /\ SpectList' = <<>>
    /\ UNCHANGED <<loadedFilename, music_thread, playsoundstop, threads, rl,
                   renderAll, lastRenderListSize, updates, paint, lastPaint,
                   algorithmNum, ChunkSizesList, chunkSize, paintbrush, freqlist,
                   recorded, algorithmFlag, calls, adding, viewer, warning>>

\* One pass of "for i in range(len(channelChunks[0]))": every channel's
\* chunk i is analysed and one entry joins freqList and SpectList.
AnFrame ==
    /\ an.pc = "precompute"
    /\ an.i < Len(an.channelChunks[1])
    /\ \A k \in 1..an.channels : an.i < Len(an.channelChunks[k])
    /\ \E spects \in [1..an.channels -> ChunkSpectra] :
         LET a == Analyse(spects, ChunkFreq)
         IN  /\ freqList' = Append(freqList, a.channelFreqs)
             /\ SpectList' = Append(SpectList, a.CorSpect)
    /\ an' = [an EXCEPT !.i = @ + 1]
    /\ UNCHANGED <<loadedFilename, music_thread, playsoundstop, threads, rl,
                   renderAll, lastRenderListSize, updates, paint, lastPaint,
                   algorithmNum, ChunkSizesList, chunkSize, paintbrush, freqlist,
                   recorded, algorithmFlag, calls, adding, viewer, warning>>

\* The precompute loop ends; resetlistlinks follows.
AnDone ==
    /\ an.pc = "precompute"
    /\ an.i >= Len(an.channelChunks[1])
    /\ an' = [an EXCEPT !.pc = "done"]
    /\ paintbrush' = [paintbrush EXCEPT !.fl = freqlist]
    /\ UNCHANGED <<loadedFilename, music_thread, playsoundstop, threads, rl,
                   renderAll, lastRenderListSize, updates, paint, lastPaint,
                   algorithmNum, ChunkSizesList, chunkSize, freqlist, recorded,
                   freqList, SpectList, algorithmFlag, calls, adding, viewer,
                   warning>>

NextAnalysis ==
    \/ AnSlice
    \/ AnChannel
    \/ AnOpen
    \/ AnFrame
    \/ AnDone

SpecAnalysis == InitAnalysis /\ [][NextAnalysis]_vars

\* SpecFrame: the analysis of one chunk, for every spectrum the chunk may
\* have: getMaxFreq on its own, one pass of the precompute loop of dotheplay
\* (one or two channels) and one pass of the loop of dotherecord (one
\* channel, RECORDCHANNELS), which also hands the frame to the generator.
FrameMagnitudes == {1, 5, 9}

\* The bin frequencies of a chunk: one set of bins reaches above freqcap,
\* the other has its highest bin at freqcap.
FrameFreqs == { <<0, 220, 9000>>, <<0, 8500, 440>> }

\* The spectra of n bins.
FrameSpectra(n) == [1..n -> FrameMagnitudes]

\* The inputs of the three operations: getMaxFreq also gets empty arrays.
FrameInputs ==
    {[pc |-> "getMaxFreq", spects |-> <<spec>>, freq |-> freq, out |-> 0] :
        spec \in UNION {FrameSpectra(n) : n \in 0..3},
        freq \in FrameFreqs \cup {<<>>}}
    \cup
    {[pc |-> "dotheplay", spects |-> spects, freq |-> freq, out |-> 0] :
        spects \in UNION {[1..c -> FrameSpectra(3)] : c \in 1..MaxChannels},
        freq \in FrameFreqs}
    \cup
    {[pc |-> "dotherecord", spects |-> <<spec>>, freq |-> freq, out |-> 0] :
        spec \in FrameSpectra(3), freq \in FrameFreqs}

\* The state in which the chunk is analysed: a session has started (the
\* lists are empty, paintbrush.fl is bound to self.freqlist).
InitFrame ==
    /\ loadedFilename = "song.wav"
    /\ music_thread = 0
    /\ playsoundstop = FALSE
    /\ threads = [t \in ThreadIds |-> NoThread]
    /\ rl = RLClear
    /\ renderAll = TRUE
    /\ lastRenderListSize = 0
    /\ updates = [pending |-> FALSE, worker |-> FALSE]
    /\ paint = NoPaint
    /\ lastPaint = [result |-> "none", worker |-> FALSE]
    /\ algorithmNum = 0
    /\ ChunkSizesList = AllChunkSizes
    /\ chunkSize = 4
    /\ paintbrush = [PaintBrushInit EXCEPT !.fl = 1]
    /\ freqlist = 1
    /\ recorded = [t \in ThreadIds |-> <<>>]
    /\ freqList = <<>>
    /\ SpectList = <<>>
    /\ algorithmFlag = TRUE
    /\ calls = 0
    /\ adding = <<>>
    /\ an \in {f \in FrameInputs :
                 f.pc = "getMaxFreq" => (f.spects[1] = <<>> \/ f.freq = <<>>
                                         \/ Len(f.spects[1]) = Len(f.freq))}
    /\ viewer = ViewerInit
    /\ warning = ""

\* maxfreq = self.getMaxFreq(spect, freq).
FrameMaxFreq ==
    /\ an.pc = "getMaxFreq"
    /\ an' = [an EXCEPT !.pc = "returned", !.out = getMaxFreq(an.spects[1], an.freq)]
    /\ UNCHANGED <<loadedFilename, music_thread, playsoundstop, threads, rl,
                   renderAll, lastRenderListSize, updates, paint, lastPaint,
                   algorithmNum, ChunkSizesList, chunkSize, paintbrush, freqlist,
                   recorded, freqList, SpectList, algorithmFlag, calls, adding,
                   viewer, warning>>

\* One pass of the precompute loop of dotheplay.
FramePlay ==
    /\ an.pc = "dotheplay"
    /\ LET a == Analyse(an.spects, an.freq)
       IN  /\ freqList' = Append(freqList, a.channelFreqs)
           /\ SpectList' = Append(SpectList, a.CorSpect)
    /\ an' = [an EXCEPT !.pc = "played"]
    /\ UNCHANGED <<loadedFilename, music_thread, playsoundstop, threads, rl,
                   renderAll, lastRenderListSize, updates, paint, lastPaint,
                   algorithmNum, ChunkSizesList, chunkSize, paintbrush, freqlist,
                   recorded, algorithmFlag, calls, adding, viewer, warning>>

\* One pass of the loop of dotherecord up to canvas.update(), as RecordRead;
\* out keeps CorSpect, which dotherecord stores in no list.
FrameRecord ==
    /\ an.pc = "dotherecord"
    /\ LET a     == Analyse(an.spects, an.freq)
           lists == [recorded EXCEPT ![freqlist] = Append(recorded[freqlist], a.channelFreqs)]
           pos   == Len(lists[freqlist]) - 1
       IN  /\ recorded' = lists
           /\ an' = [an EXCEPT !.pc = "recorded", !.out = a.CorSpect]
           /\ IF a.channelFreqs # <<0, 0>>
              THEN /\ algorithmFlag' = RecordFlag(pos)
                   /\ \E rnd \in RndChoices(paintbrush.currentAlgorithm) :
                        LET r == draw(paintbrush.currentAlgorithm, paintbrush,
                                      NumFreq(paintbrush, lists), lists[freqlist][pos + 1],
                                      pos, a.CorSpect, RecordFlag(pos), rnd)
                        IN  /\ paintbrush' = r.pb
                            /\ rl' = AddAll(rl, r.objs)
                            /\ renderAll' = IF r.err THEN renderAll ELSE FALSE
                            /\ updates' = IF r.err THEN updates
                                          ELSE [pending |-> TRUE, worker |-> TRUE]
              ELSE UNCHANGED <<paintbrush, algorithmFlag, rl, renderAll, updates>>
    /\ UNCHANGED <<loadedFilename, music_thread, playsoundstop, threads,
                   lastRenderListSize, paint, lastPaint, algorithmNum,
                   ChunkSizesList, chunkSize, freqlist, freqList, SpectList,
                   calls, adding, viewer, warning>>

NextFrame ==
    \/ FrameMaxFreq
    \/ FramePlay
    \/ FrameRecord

SpecFrame == InitFrame /\ [][NextFrame]_vars

\* SpecAlg13: one session of algorithm 13 after resetRLData has selected
\* it: the worker hands frame after frame to paintbrush.draw, the flag of
\* each call being either value (the workers derive it from the position of
\* the frame; a captured frame above freqcap is not drawn at all).
MaxAlg13Calls == 10

\* The channelFreqs of the frames: averages of 100 and of 2000 Hz.
Alg13Data == { <<100>>, <<1000, 3000>> }

\* The combo is at index 12, SetAlg13 has run and the session has started.
InitAlg13 ==
    /\ loadedFilename = ""
    /\ music_thread = 0
    /\ playsoundstop = FALSE
    /\ threads = [t \in ThreadIds |-> NoThread]
    /\ rl = RLClear
    /\ renderAll = TRUE
    /\ lastRenderListSize = 0
    /\ updates = [pending |-> FALSE, worker |-> FALSE]
    /\ paint = NoPaint
    /\ lastPaint = [result |-> "none", worker |-> FALSE]
    /\ algorithmNum = 12
    /\ ChunkSizesList = AllChunkSizes
    /\ chunkSize = 4
    /\ paintbrush = [ResetFor(12, PaintBrushInit) EXCEPT !.currentAlgorithm = 13, !.fl = 1]
    /\ freqlist = 1
    /\ recorded = [t \in ThreadIds |-> <<>>]
    /\ freqList = <<>>
    /\ SpectList = <<>>
    /\ algorithmFlag = TRUE
    /\ calls = 0
    /\ adding = <<>>
    /\ an = [pc |-> "alg13", flags |-> <<>>]
    /\ viewer = ViewerInit
    /\ warning = ""

\* One frame: it joins the frequency list and paintbrush.draw(data, pos,
\* spect, active) runs to its end, rl.add included.  an.flags keeps the flags
\* handed over so far.
Alg13Frame(data, active) ==
    /\ calls < MaxAlg13Calls
    /\ LET lists == [recorded EXCEPT ![freqlist] = Append(recorded[freqlist], data)]
           pos   == Len(lists[freqlist]) - 1
       IN  /\ recorded' = lists
           /\ \E rnd \in RndChoices(paintbrush.currentAlgorithm), spectdata \in AlgSpect :
                LET r == draw(paintbrush.currentAlgorithm, paintbrush,
                              NumFreq(paintbrush, lists), data, pos, spectdata, active, rnd)
                IN  /\ paintbrush' = r.pb
                    /\ rl' = AddAll(rl, r.objs)
    /\ algorithmFlag' = active
    /\ calls' = calls + 1
    /\ an' = [an EXCEPT !.flags = Append(@, active)]
    /\ UNCHANGED <<loadedFilename, music_thread, playsoundstop, threads,
                   renderAll, lastRenderListSize, updates, paint, lastPaint,
                   algorithmNum, ChunkSizesList, chunkSize, freqlist, freqList,
                   SpectList, adding, viewer, warning>>

NextAlg13 == \E data \in Alg13Data, active \in BOOLEAN : Alg13Frame(data, active)

SpecAlg13 == InitAlg13 /\ [][NextAlg13]_vars

\* SpecAlg9: one session of algorithm 9 after resetRLData has selected it:
\* the worker hands frame after frame to paintbrush.draw until a call
\* raises, which ends the worker.
MaxAlg9Calls == 5

\* The channelFreqs of the frames (the hue of the triangle only).
Alg9Data == { <<20>> }

\* The spectral weights: Height .02 and .08.
Alg9Spect == {5000, 250000}

\* The numbers random.randrange draws in the iterations of one call.
Alg9Rnd == {<<a, b>> : a \in 0..3, b \in 0..1}

\* The combo is at index 8, SetAlg9 has run and the session has started.
InitAlg9 ==
    /\ loadedFilename = ""
    /\ music_thread = 0
    /\ playsoundstop = FALSE
    /\ threads = [t \in ThreadIds |-> NoThread]
    /\ rl = RLClear
    /\ renderAll = TRUE
    /\ lastRenderListSize = 0
    /\ updates = [pending |-> FALSE, worker |-> FALSE]
    /\ paint = NoPaint
    /\ lastPaint = [result |-> "none", worker |-> FALSE]
    /\ algorithmNum = 8
    /\ ChunkSizesList = TriangleChunkSizes
    /\ chunkSize = 0
    /\ paintbrush = [ResetFor(8, PaintBrushInit) EXCEPT !.currentAlgorithm = 9, !.fl = 1]
    /\ freqlist = 1
    /\ recorded = [t \in ThreadIds |-> <<>>]
    /\ freqList = <<>>
    /\ SpectList = <<>>
    /\ algorithmFlag = TRUE
    /\ calls = 0
    /\ adding = <<>>
    /\ an = [pc |-> "alg9", err |-> FALSE]
    /\ viewer = ViewerInit
    /\ warning = ""

\* One frame: it joins the frequency list and paintbrush.draw(data, pos,
\* spect, active) runs to its end, rl.add included.  an.err: the call raised
\* an exception (the worker is gone).  outcomes as in Alg9GrowWith: <<>> for
\* the call the source makes.
Alg9Frame(data, spectdata, rnd, outcomes) ==
    /\ calls < MaxAlg9Calls
    /\ ~an.err
    /\ LET lists == [recorded EXCEPT ![freqlist] = Append(recorded[freqlist], data)]
           pos   == Len(lists[freqlist]) - 1
           r     == IF outcomes = <<>>
                    THEN draw(paintbrush.currentAlgorithm, paintbrush,
                              NumFreq(paintbrush, lists), data, pos, spectdata,
                              RecordFlag(pos), rnd)
                    ELSE algorithm9With(paintbrush, data, spectdata, rnd, outcomes)
       IN  /\ recorded' = lists
           /\ algorithmFlag' = RecordFlag(pos)
           /\ paintbrush' = r.pb
           /\ rl' = AddAll(rl, r.objs)
           /\ an' = [an EXCEPT !.err = r.err]
    /\ calls' = calls + 1
    /\ UNCHANGED <<loadedFilename, music_thread, playsoundstop, threads,
                   renderAll, lastRenderListSize, updates, paint, lastPaint,
                   algorithmNum, ChunkSizesList, chunkSize, freqlist, freqList,
                   SpectList, adding, viewer, warning>>

NextAlg9 ==
    \E data \in Alg9Data, spectdata \in Alg9Spect, rnd \in Alg9Rnd :
       Alg9Frame(data, spectdata, rnd, <<>>)

SpecAlg9 == InitAlg9 /\ [][NextAlg9]_vars

\* SpecAlg9Any: the same session with the result of each validation left
\* open, for what the loop does whatever the validations say.  With the
\* geometry deciding, the edges run out only when the canvas is full, after
\* more calls than can be enumerated.
Alg9Outcomes == {<<a, b>> : a \in BOOLEAN, b \in BOOLEAN}

NextAlg9Any ==
    \E data \in Alg9Data, spectdata \in Alg9Spect, rnd \in Alg9Rnd,
       outcomes \in Alg9Outcomes :
       Alg9Frame(data, spectdata, rnd, outcomes)

SpecAlg9Any == InitAlg9 /\ [][NextAlg9Any]_vars

\* SpecSession: one long session of one of the generators that keep state
\* in RLData from call to call (the trail walks 2 to 5, the inward square 6,
\* the star 7, the glows 8 and the rings 10), after resetRLData has selected
\* it: the
\* worker hands frame after frame to paintbrush.draw.  The frames of one
\* session carry the same spectral weight (a steady tone).
MaxSessionCalls == 150

SessionAlgorithms == {2, 3, 4, 5, 6, 7, 8, 10}

\* The spectral weight of the session: at the low end of the ramps, in the
\* middle and at the high end.
SessionSpect == {5000, 105000, 250000}

\* The combo is at the index of the algorithm, its initializer has run and
\* the session has started.
InitSession ==
    /\ loadedFilename = ""
    /\ music_thread = 0
    /\ playsoundstop = FALSE
    /\ threads = [t \in ThreadIds |-> NoThread]
    /\ rl = RLClear
    /\ renderAll = TRUE
    /\ lastRenderListSize = 0
    /\ updates = [pending |-> FALSE, worker |-> FALSE]
    /\ paint = NoPaint
    /\ lastPaint = [result |-> "none", worker |-> FALSE]
    /\ \E alg \in SessionAlgorithms :
         /\ algorithmNum = alg - 1
         /\ ChunkSizesList = ResetChunkList(alg - 1)
         /\ chunkSize = ResetChunkIndex(alg - 1, AllChunkSizes, 4)
         /\ paintbrush = [ResetFor(alg - 1, PaintBrushInit)
                            EXCEPT !.currentAlgorithm = alg, !.fl = 1]
    /\ freqlist = 1
    /\ recorded = [t \in ThreadIds |-> <<>>]
    /\ freqList = <<>>
    /\ SpectList = <<>>
    /\ algorithmFlag = TRUE
    /\ calls = 0
    /\ adding = <<>>
    /\ \E spect \in SessionSpect : an = [pc |-> "session", spect |-> spect, err |-> FALSE]
    /\ viewer = ViewerInit
    /\ warning = ""

\* One frame: it joins the frequency list and paintbrush.draw(data, pos,
\* spect, active) runs to its end, rl.add included.  an.spect: the spectral
\* weight of the latest frame; an.err: the call raised an exception (the
\* worker is gone).
SessionFrame(data, spectdata) ==
    /\ calls < MaxSessionCalls
    /\ ~an.err
    /\ LET lists == [recorded EXCEPT ![freqlist] = Append(recorded[freqlist], data)]
           pos   == Len(lists[freqlist]) - 1
           r     == draw(paintbrush.currentAlgorithm, paintbrush,
                         NumFreq(paintbrush, lists), data, pos, spectdata,
                         RecordFlag(pos), <<0, 0>>)
       IN  /\ recorded' = lists
           /\ algorithmFlag' = RecordFlag(pos)
           /\ paintbrush' = r.pb
           /\ rl' = AddAll(rl, r.objs)
           /\ an' = [an EXCEPT !.spect = spectdata, !.err = r.err]
    /\ calls' = calls + 1
    /\ UNCHANGED <<loadedFilename, music_thread, playsoundstop, threads,
                   renderAll, lastRenderListSize, updates, paint, lastPaint,
                   algorithmNum, ChunkSizesList, chunkSize, freqlist, freqList,
                   SpectList, adding, viewer, warning>>

NextSession == \E data \in Alg9Data : SessionFrame(data, an.spect)

SpecSession == InitSession /\ [][NextSession]_vars

\* SpecAlg7: a session of algorithm 7 in which the spectral weight changes
\* from frame to frame: any sequence over the low end of the ramp (the radius
\* keeps its size) and the high end (it is scaled by 1.3 or by .7).
MaxAlg7Calls == 16

InitAlg7 == InitSession /\ algorithmNum = 6 /\ an.spect = 5000

NextAlg7 ==
    \E data \in Alg9Data, spectdata \in Alg9Spect :
       calls < MaxAlg7Calls /\ SessionFrame(data, spectdata)

SpecAlg7 == InitAlg7 /\ [][NextAlg7]_vars

\* SpecChunk: the algorithm and chunk-size combo boxes and the start of
\* sessions, which is where the chunk size is read.
\* The user picks entry index of the chunk-size combo (no slot is connected
\* to it; the combo keeps the index).
selectChunkSize(index) ==
    /\ GuiIdle
    /\ index \in 0..(Len(ChunkSizesList) - 1)
    /\ index # chunkSize
    /\ chunkSize' = index
    /\ UNCHANGED <<loadedFilename, music_thread, playsoundstop, threads, rl,
                   renderAll, lastRenderListSize, updates, paint, lastPaint,
                   algorithmNum, ChunkSizesList, paintbrush, freqlist, recorded,
                   freqList, SpectList, algorithmFlag, calls, adding, an,
                   viewer, warning>>

\* The entries of the algorithm combo the user moves between here: the two
\* triangle algorithms (6 and 9) and two of the others (1 and 7).
ChunkAlgIndices == {0, 5, 6, 8}

NextChunk ==
    \/ \E file_name \in FileNames \cup {""}, readable \in BOOLEAN :
         openFile(file_name, readable)
    \/ \E index \in ChunkAlgIndices : resetRLData(index)
    \/ \E index \in 0..(Len(AllChunkSizes) - 1) : selectChunkSize(index)
    \/ \E readable \in BOOLEAN : renderImage(readable)
    \/ RecordSoundData
    \/ \E t \in ThreadIds : PlayStart(t)
    \/ \E t \in ThreadIds : RecordStart(t)

SpecChunk == Init /\ [][NextChunk]_vars

\* ------------------------------------------------------------- the viewer
\* A slip of the clamp of the zoom factor: the lower bound is not enforced.
ZoomClampSlip(z) == IF z > 1000 * Scale THEN 1000 * Scale ELSE z

\* "if self.zoomfactor < 1: self.zoomfactor = 1; if self.zoomfactor > 1000:
\* self.zoomfactor = 1000".
ZoomClamp(z) ==
    IF z < Scale THEN Scale ELSE IF z > 1000 * Scale THEN 1000 * Scale ELSE z

\* int(n / d) for d > 0: the quotient cut towards zero, as the conversion of
\* a float to the int of a QPoint cuts it.
IntTrunc(n, d) == IF n >= 0 THEN n \div d ELSE -((-n) \div d)

\* The version of XYtoQPoint the source keeps in a comment, which leaves the
\* centre out: "ptx = x / xr * self.width() + self.width() / 2".
XYtoQPointUncentred(v, x, y) ==
    LET xr == v.screen[2] - v.screen[1]
        yr == v.screen[4] - v.screen[3]
    IN  <<IntTrunc(2 * x * v.width + v.width * xr, 2 * xr),
          IntTrunc(2 * (-y) * v.height + v.height * yr, 2 * yr)>>

\* XYtoQPoint: ptx = (x + center[0]) / xr * width + width / 2 and
\* pty = (center[1] - y) / yr * height + height / 2, each cut to the int of
\* the QPoint.  The two terms are put over the common denominator 2 * xr
\* (2 * yr), so the quotient is cut once, as the float is.
XYtoQPoint(v, x, y) ==
    LET xr == v.screen[2] - v.screen[1]
        yr == v.screen[4] - v.screen[3]
    IN  <<IntTrunc(2 * (x + v.center[1]) * v.width + v.width * xr, 2 * xr),
          IntTrunc(2 * (v.center[2] - y) * v.height + v.height * yr, 2 * yr)>>

\* The pixels a full paint draws the points of the render list at
\* (RenderPoint: qp.drawPoint(self.XYtoQPoint(obj[1], obj[2]))); <<>> for an
\* object of another tag.
PaintPoints(v, renderlist) ==
    [i \in 1..Len(renderlist) |->
       IF renderlist[i][1] = 0
       THEN XYtoQPoint(v, renderlist[i][2], renderlist[i][3])
       ELSE <<>>]

\* self.repaint() at the end of a viewer handler: paintEvent runs at once and
\* to its end on the GUI thread, for the viewer state v the handler leaves.
\* With renderAll False it stops at the AttributeError of its first branch.
\* drawn: the pixels of the points of the render list.
Repaint(v) ==
    /\ viewer' = [v EXCEPT !.screen = ScreenBounds(v)]
    /\ lastRenderListSize' = IF renderAll THEN RLLength(rl) ELSE lastRenderListSize
    /\ lastPaint' = [result |-> IF renderAll THEN "full" ELSE "AttributeError",
                     worker |-> FALSE,
                     drawn |-> IF renderAll
                               THEN PaintPoints([v EXCEPT !.screen = ScreenBounds(v)], rl)
                               ELSE <<>>]

\* zoomfactor *= num / den: the floor of z * num / den, with the product
\* split so that it stays within the integers of the checker.
ZoomTimes(z, num, den) == (z \div den) * num + ((z % den) * num) \div den

\* wheelEvent: zoomfactor *= (1 + e.delta() / 5000), clamped.
wheelEvent(delta) ==
    /\ GuiIdle
    /\ Repaint([viewer EXCEPT
                  !.zoomfactor = ZoomClamp(ZoomTimes(viewer.zoomfactor, 5000 + delta, 5000))])
    /\ UNCHANGED <<loadedFilename, music_thread, playsoundstop, threads, rl,
                   renderAll, updates, paint, algorithmNum, ChunkSizesList,
                   chunkSize, paintbrush, freqlist, recorded, freqList, SpectList,
                   algorithmFlag, calls, adding, an, warning>>

\* mousePressEvent: the position is kept; the left button sets mouseDown.
\* A button that is held cannot be pressed.
mousePressEvent(pos, left) ==
    /\ GuiIdle
    /\ left => ~viewer.leftButton
    /\ viewer' = [viewer EXCEPT !.mousePosition = pos,
                                !.mouseDown = IF left THEN TRUE ELSE @,
                                !.leftButton = IF left THEN TRUE ELSE @]
    /\ UNCHANGED <<loadedFilename, music_thread, playsoundstop, threads, rl,
                   renderAll, lastRenderListSize, updates, paint, lastPaint,
                   algorithmNum, ChunkSizesList, chunkSize, paintbrush, freqlist,
                   recorded, freqList, SpectList, algorithmFlag, calls, adding, an,
                   warning>>

\* mouseReleaseEvent: whichever button is released, mouseDown is cleared.
\* left: it is the left button that is released (it was held).
mouseReleaseEvent(left) ==
    /\ GuiIdle
    /\ left => viewer.leftButton
    /\ viewer' = [viewer EXCEPT !.mouseDown = FALSE,
                                !.leftButton = IF left THEN FALSE ELSE @]
    /\ UNCHANGED <<loadedFilename, music_thread, playsoundstop, threads, rl,
                   renderAll, lastRenderListSize, updates, paint, lastPaint,
                   algorithmNum, ChunkSizesList, chunkSize, paintbrush, freqlist,
                   recorded, freqList, SpectList, algorithmFlag, calls, adding, an,
                   warning>>

\* The plain-drag moves made in one behaviour.
MaxPans == 1

\* The sets of modifier keys QApplication.keyboardModifiers() reports.
KeyboardModifiers == SUBSET {"Control", "Shift"}

\* mouseMoveEvent to pos, with the modifier keys held.  With mouseDown set,
\* a move whose modifiers are Control and nothing else zooms by
\* 1 + pixmove / 100, and a move with any other modifiers pans by the move
\* scaled with the bounds of the last paint; with mouseDown clear only the
\* position is kept.  Pan moves are counted.
mouseMoveEvent(pos, modifiers) ==
    /\ GuiIdle
    /\ LET last    == viewer.mousePosition
           moved   == [viewer EXCEPT !.mousePosition = pos]
           pixmove == (pos[1] - last[1]) + (pos[2] - last[2])
           xr      == viewer.screen[2] - viewer.screen[1]
           yr      == viewer.screen[4] - viewer.screen[3]
       IN  IF ~viewer.mouseDown
           THEN /\ viewer' = moved
                /\ UNCHANGED <<lastRenderListSize, lastPaint, calls>>
           ELSE IF modifiers = {"Control"}
           THEN /\ Repaint([moved EXCEPT
                              !.zoomfactor = ZoomClamp(ZoomTimes(viewer.zoomfactor,
                                                                 100 + pixmove, 100))])
                /\ UNCHANGED calls
           ELSE /\ calls < MaxPans
                /\ calls' = calls + 1
                /\ Repaint([moved EXCEPT
                              !.center = <<viewer.center[1]
                                             + ((pos[1] - last[1]) * xr) \div viewer.width,
                                           viewer.center[2]
                                             + ((pos[2] - last[2]) * yr) \div viewer.height>>])
    /\ UNCHANGED <<loadedFilename, music_thread, playsoundstop, threads, rl,
                   renderAll, updates, paint, algorithmNum, ChunkSizesList,
                   chunkSize, paintbrush, freqlist, recorded, freqList, SpectList,
                   algorithmFlag, adding, an, warning>>

resetCenter ==
    /\ GuiIdle
    /\ Repaint([viewer EXCEPT !.center = <<0, 0>>])
    /\ UNCHANGED <<loadedFilename, music_thread, playsoundstop, threads, rl,
                   renderAll, updates, paint, algorithmNum, ChunkSizesList,
                   chunkSize, paintbrush, freqlist, recorded, freqList, SpectList,
                   algorithmFlag, calls, adding, an, warning>>

resetZoom ==
    /\ GuiIdle
    /\ Repaint([viewer EXCEPT !.zoomfactor = Scale])
    /\ UNCHANGED <<loadedFilename, music_thread, playsoundstop, threads, rl,
                   renderAll, updates, paint, algorithmNum, ChunkSizesList,
                   chunkSize, paintbrush, freqlist, recorded, freqList, SpectList,
                   algorithmFlag, calls, adding, an, warning>>

resetCenterAndZoom ==
    /\ GuiIdle
    /\ Repaint([viewer EXCEPT !.center = <<0, 0>>, !.zoomfactor = Scale])
    /\ UNCHANGED <<loadedFilename, music_thread, playsoundstop, threads, rl,
                   renderAll, updates, paint, algorithmNum, ChunkSizesList,
                   chunkSize, paintbrush, freqlist, recorded, freqList, SpectList,
                   algorithmFlag, calls, adding, an, warning>>

\* SpecView: the mouse and the reset actions on the viewer of an idle
\* program whose render list holds one point, from the first paint of the
\* window on.
\* The sizes the widget may have (pixels).
WidgetSizes == { <<400, 400>>, <<800, 400>>, <<400, 800>> }

\* Wheel deltas: 1 + delta / 5000 is -1, 1/10 and 10.
WheelDeltas == {-10000, -4500, 45000}

\* The positions the mouse is reported at: a move between them has
\* pixmove 900 or -900, so 1 + pixmove / 100 is 10 or -8.
MousePositions == { <<0, 0>>, <<600, 300>> }

\* The points the render list may hold (thousandths), black.
ViewPoints == { <<0, 0>>, <<503, -251>>, <<-997, 1000>> }

InitView ==
    /\ loadedFilename = ""
    /\ music_thread = 0
    /\ playsoundstop = FALSE
    /\ threads = [t \in ThreadIds |-> NoThread]
    /\ \E pt \in ViewPoints : rl = RLAdd(RLClear, makePoint(pt[1], pt[2], <<0, 0, 0, 255>>))
    /\ renderAll = TRUE
    /\ lastRenderListSize = 1
    /\ updates = [pending |-> FALSE, worker |-> FALSE]
    /\ paint = NoPaint
    /\ algorithmNum = 0
    /\ ChunkSizesList = AllChunkSizes
    /\ chunkSize = 4
    /\ paintbrush = PaintBrushInit
    /\ freqlist = 0
    /\ recorded = [t \in ThreadIds |-> <<>>]
    /\ freqList = <<>>
    /\ SpectList = <<>>
    /\ algorithmFlag = TRUE
    /\ calls = 0
    /\ adding = <<>>
    /\ an = NoAnalysis
    /\ \E size \in WidgetSizes :
         LET sized == [ViewerInit EXCEPT !.width = size[1], !.height = size[2]]
         IN  viewer = [sized EXCEPT !.screen = ScreenBounds(sized)]
    /\ lastPaint = [result |-> "full", worker |-> FALSE,
                    drawn |-> PaintPoints(viewer, rl)]
    /\ warning = ""

NextView ==
    \/ \E delta \in WheelDeltas : wheelEvent(delta)
    \/ \E pos \in MousePositions, left \in BOOLEAN : mousePressEvent(pos, left)
    \/ \E left \in BOOLEAN : mouseReleaseEvent(left)
    \/ \E pos \in MousePositions, modifiers \in KeyboardModifiers :
         mouseMoveEvent(pos, modifiers)
    \/ resetCenter
    \/ resetZoom
    \/ resetCenterAndZoom

SpecView == InitView /\ [][NextView]_vars

\* ----------------------------------------------------------------- claims
AliveWorkers == {t \in ThreadIds : Alive(t)}

\* C1: after any sequence of Render, Play, Record and Stop actions,
\* interleaved with worker steps, at most one worker thread is alive.
C1_AtMostOneWorker == Cardinality(AliveWorkers) <= 1

\* C2: once a Stop has set the stop flag, the worker that was running makes
\* at most one further generator call (the safety half of the claim: a
\* worker that a Stop found alive never begins a second draw call).
C2_AtMostOneDrawAfterStop ==
    \A t \in ThreadIds : threads[t].stopped => threads[t].after <= 1

\* C3: Render or Play invoked while a worker is alive changes nothing (no
\* worker started; stop flag, thread reference, render list and algorithm
\* state unchanged); Record invoked while a worker is alive starts no worker
\* and only sets the stop flag and drops the thread reference.
C3_StartWhileAliveIsNoOp ==
    [][ /\ (AliveWorkers # {} /\ \E readable \in BOOLEAN :
                                   renderImage(readable) \/ PlaySoundData(readable))
           => /\ \A t \in ThreadIds : threads'[t].state = threads[t].state
              /\ UNCHANGED <<playsoundstop, music_thread, rl, paintbrush>>
        /\ (AliveWorkers # {} /\ RecordSoundData)
           => /\ \A t \in ThreadIds : threads'[t].state = threads[t].state
              /\ playsoundstop' = TRUE
              /\ music_thread' = 0
              /\ UNCHANGED <<rl, paintbrush>> ]_vars

\* C5: a paint that snapshots the list length and reads the indices below it
\* gets a render object for every index: every index the loop has yet to
\* read holds an object, and no paint ended on the None of RenderList.get.
C5_PaintNeverGetsNone ==
    /\ lastPaint.result # "TypeError"
    /\ paint.pc = "loop" => \A i \in paint.i..(paint.stop - 1) : RLGet(rl, i) # None

\* C5 witness: a paint is in its loop with objects still to read, the worker
\* has appended since the snapshot, and the list had been cleared since the
\* paint before (it was longer then).
C5_Witness ==
    /\ paint.pc = "loop"
    /\ paint.i < paint.stop
    /\ RLLength(rl) > paint.stop
    /\ paint.prev > paint.stop

\* C6: every redraw the worker requests after generating a frame is
\* performed in incremental mode.
C6_WorkerRedrawIsIncremental ==
    /\ lastPaint.worker => lastPaint.result = "incremental"
    /\ (paint.pc # "idle" /\ paint.worker) => ~paint.all

\* The operations of a full redraw of the first n objects of renderlist.
FullRedraw(renderlist, n) ==
    [j \in 1..n |-> [i |-> j - 1, tag |-> renderlist[j][1],
                     routine |-> RenderRoutine(renderlist[j])]]

\* C7: a full redraw clears the background, then draws every object at
\* indices 0..length-1 once, in order, with the routine of its tag; and
\* every paint, full or incremental, draws the border after the content
\* (no paint ends without it).
C7_FullRedrawThenBorder ==
    /\ (paint.pc = "border" /\ paint.all)
          => /\ paint.stop <= RLLength(rl)
             /\ paint.ops = FullRedraw(rl, paint.stop)
    /\ lastPaint.result \in {"none", "full", "incremental"}

\* C8: every session starts from the reset private state of the selected
\* algorithm: after the first step of dotheplay or dotherecord the
\* generator state is what the algorithm's initializer sets.
C8_SessionStartsReset ==
    [][ \A t \in ThreadIds :
          (PlayStart(t) \/ RecordStart(t))
             => paintbrush' = ResetFor(paintbrush'.currentAlgorithm - 1, paintbrush') ]_vars

\* rl is the first Len(rl) elements of its next value, unchanged.
StaysPublished == Len(rl') >= Len(rl) /\ SubSeq(rl', 1, Len(rl)) = rl

C9_Initial(alg, pb) ==
    CASE alg \in 2..5 -> pb.RLData = <<0, 0, 0>>
      [] alg = 6  -> /\ pb.RLData = <<1000, 1000, 1000, -1000, -1000, -1000, -1000, 1000, 0>>
                     /\ pb.TriangleList = <<>>
      [] alg = 7  -> pb.RLData = <<3142, 100, 100, 1, 0, 1>>
      [] alg = 8  -> pb.RLData = <<3142, 25, 100, 1, 0, 0, 25>>
      [] alg = 9  -> /\ pb.RLData = <<1, 0, 0>>
                     /\ pb.TriangleList = <<>>
                     /\ pb.LineList = <<>>
      [] alg = 10 -> pb.RLData = <<0, 0>>
      [] alg = 13 -> pb.RLData = <<0, 0, 0, 0, 0>> /\ pb.avgList = <<>>
      [] OTHER    -> TRUE

\* C9: selecting an algorithm sets the private state of the newly selected
\* algorithm (2-10 and 13) to its initial values, whatever state the
\* algorithm selected before left.
C9_SelectResets ==
    [][ \A index \in 0..12 :
          AlgSelect(index) => C9_Initial(index + 1, paintbrush') ]_vars

\* C9 witness: algorithm 13 is selected and at its initial values while the
\* triangle list still holds what algorithm 6 or 9 left.
C9_Witness ==
    /\ algorithmNum = 12
    /\ paintbrush.RLData = <<0, 0, 0, 0, 0>>
    /\ paintbrush.avgList = <<>>
    /\ paintbrush.TriangleList # <<>>
    /\ calls > 0

\* C10: for every chunk size, sample count and channel count the analysis
\* produces floor(samples / chunk) frames: freqList and SpectList have that
\* length when the precompute loop ends.
C10_FrameCount ==
    an.pc = "done" => /\ Len(freqList) = an.samples \div an.chunk
                      /\ Len(SpectList) = an.samples \div an.chunk

\* C10 witness: the analysis of a two-channel file whose length is no
\* multiple of the chunk size has ended with two or more frames.
C10_Witness ==
    /\ an.pc = "done"
    /\ an.channels = 2
    /\ an.samples % an.chunk # 0
    /\ Len(freqList) >= 2

\* The frame the analysis has just stored: the last entry of freqList after
\* a pass of dotheplay, of self.freqlist after a pass of dotherecord.
StoredFrame ==
    IF an.pc = "played" THEN freqList[Len(freqList)]
    ELSE recorded[freqlist][Len(recorded[freqlist])]

\* The dominant frequency of each channel of the chunk analysed.
FrameChannelFreqs == [k \in 1..Len(an.spects) |-> getMaxFreq(an.spects[k], an.freq)]

\* C11: for every analysed frame, in playback and in live capture, when the
\* greatest per-channel dominant frequency exceeds 8500 every entry of the
\* stored channel-frequency list is 0, and when it is at most 8500 the
\* per-channel frequencies are stored unchanged.
C11_FrequencyCap ==
    an.pc \in {"played", "recorded"} =>
        /\ (\E k \in 1..Len(an.spects) : FrameChannelFreqs[k] > 8500)
              => \A e \in 1..Len(StoredFrame) : StoredFrame[e] = 0
        /\ (\A k \in 1..Len(an.spects) : FrameChannelFreqs[k] <= 8500)
              => StoredFrame = FrameChannelFreqs

\* C11 witness: a captured frame whose dominant frequency is above the cap
\* was stored, as zeros.
C11_Witness ==
    /\ an.pc = "recorded"
    /\ FrameChannelFreqs[1] > 8500
    /\ StoredFrame = <<0, 0>>

\* The spectral weight the analysis has just produced: the last entry of
\* SpectList after a pass of dotheplay, the CorSpect handed to draw after a
\* pass of dotherecord.
StoredWeight == IF an.pc = "played" THEN SpectList[Len(SpectList)] ELSE an.out

\* The magnitude at the dominant-frequency bin of a spectrum: its greatest.
DominantMagnitude(spec) ==
    CHOOSE m \in {spec[j] : j \in 1..Len(spec)} : \A j \in 1..Len(spec) : spec[j] <= m

\* C12: for every frame the spectral weight handed to the generator (the
\* SpectList entry, CorSpect) is the spectrum magnitude at the dominant bin
\* of the channel whose dominant frequency is the largest across channels.
C12_WeightIsDominantMagnitude ==
    an.pc \in {"played", "recorded"} =>
        \E k \in 1..Len(an.spects) :
            /\ \A c \in 1..Len(an.spects) : FrameChannelFreqs[c] <= FrameChannelFreqs[k]
            /\ StoredWeight = DominantMagnitude(an.spects[k])

\* C13: getMaxFreq returns the frequency of the bin whose magnitude is
\* greatest over the whole spectrum, the lowest-index one when several are,
\* and 0 when the spectrum or the frequency array is empty.
C13_MaxFreq ==
    an.pc = "returned" =>
        LET spec == an.spects[1]
            freq == an.freq
        IN  IF spec = <<>> \/ freq = <<>> THEN an.out = 0
            ELSE \E j \in 1..Len(spec) :
                    /\ \A i \in 1..Len(spec) : spec[i] <= spec[j]
                    /\ \A i \in 1..(j - 1) : spec[i] < spec[j]
                    /\ an.out = freq[j]

\* C13 witness: getMaxFreq has returned for a spectrum whose greatest
\* magnitude is in its last two bins, with the frequency of the first of them.
C13_Witness ==
    /\ an.pc = "returned"
    /\ an.spects[1] = <<5, 9, 9>>
    /\ an.freq = <<0, 220, 9000>>
    /\ an.out = 220

\* The algorithms the claim calls deterministic.
DeterministicAlgs == (1..8) \cup {10, 13}

\* Every value the random sources can deliver to one generator call.
AnyRnd == UNION {RndChoices(alg) : alg \in 1..13}

GridX == <<-1000, -330, 330, 1000>>

GridY == <<1000, 330, -330, -1000>>

CoversCell(obj, q) ==
    /\ obj[1] = 3
    /\ {obj[2], obj[4]} = {GridX[(q % 3) + 1], GridX[(q % 3) + 2]}
    /\ {obj[3], obj[5]} = {GridY[(q \div 3) + 1], GridY[(q \div 3) + 2]}
    /\ obj[6] = 1

\* C15: for algorithm 13 after a reset, a call whose flag is false appends
\* exactly one filled rectangle covering the cell of the quadrant cursor and
\* advances the cursor by one modulo 9; a call whose flag is true appends
\* nothing and leaves the cursor unchanged.  In particular nine calls with
\* the flag true followed by one with the flag false yield exactly one
\* rectangle, in cell 0.
C15_CursorAndCell ==
    [][ /\ \A data \in Alg13Data :
              Alg13Frame(data, FALSE) =>
                  /\ paintbrush.RLData[1] \in 0..8
                  /\ RLLength(rl') = RLLength(rl) + 1
                  /\ SubSeq(rl', 1, RLLength(rl)) = rl
                  /\ CoversCell(rl'[RLLength(rl')], paintbrush.RLData[1])
                  /\ paintbrush'.RLData[1] = (paintbrush.RLData[1] + 1) % 9
        /\ \A data \in Alg13Data :
              Alg13Frame(data, TRUE) =>
                  /\ rl' = rl
                  /\ paintbrush'.RLData[1] = paintbrush.RLData[1]
        /\ an'.flags = <<TRUE, TRUE, TRUE, TRUE, TRUE, TRUE, TRUE, TRUE, TRUE, FALSE>>
              => /\ RLLength(rl') = 1
                 /\ CoversCell(rl'[1], 0) ]_vars

\* C15 witness: ten emitting calls have filled the nine cells and the
\* cursor has wrapped: the tenth rectangle is in cell 0 again.
C15_Witness ==
    /\ RLLength(rl) = 10
    /\ CoversCell(rl[9], 8)
    /\ CoversCell(rl[10], 0)
    /\ paintbrush.RLData[1] = 1

\* The per-frame averages algorithm 13 has accumulated when a call with
\* frame data arrives: those since the previous emission and the frame's own.
Accumulated(data) == Append(paintbrush.avgList, ChannelAvg(data))

\* C16: on every emitting call of algorithm 13 the colour of the rectangle
\* is the one the bands <50, <210, <550, <2000, else give for the arithmetic
\* mean of all per-frame averages accumulated since the previous emission
\* (the current frame included), and the buffer is empty on return.
C16_ColourOfMean ==
    [][ \A data \in Alg13Data :
          Alg13Frame(data, FALSE) =>
              LET mean == Sum(Accumulated(data)) \div Len(Accumulated(data))
                  obj  == rl'[RLLength(rl')]
              IN  /\ SubSeq(obj, 7, 10) = Alg13Col(mean)
                  /\ paintbrush'.avgList = <<>> ]_vars

\* Worker t hands a frame to paintbrush.draw in this step: dotheplay at an
\* index inside freqList, dotherecord unless the captured frame is [0, 0].
HandsFrame(t) ==
    \/ PlayDraw(t) /\ threads[t].i < Len(freqList)
    \/ RecordRead(t) /\ recorded'[freqlist][Len(recorded'[freqlist])] # <<0, 0>>

\* The frame and the frame index of that call.
HandedFrame(t) ==
    IF threads[t].target = "dotheplay" THEN freqList[threads[t].i + 1]
    ELSE recorded'[freqlist][Len(recorded'[freqlist])]

HandedIndex(t) ==
    IF threads[t].target = "dotheplay" THEN threads[t].i
    ELSE Len(recorded'[freqlist]) - 1

\* The average of a frame's per-channel dominant frequencies (thousandths).
FrameAvg(data) == (Sum(data) * Scale) \div Len(data)

\* Frames whose frequency rises linearly from 0 to 2000 Hz in ten steps.
RisingFrames == {<<(2000 * k) \div 9>> : k \in 0..9}

\* The y-coordinate algorithm 1 gives the circle of frame data.
CircleY(data) == algorithm1(paintbrush, 1, data, 0).objs[1][3]

\* C17: in a session with algorithm 1, a file render on a freshly launched
\* program included, every frame handed to the generator appends exactly
\* one filled circle, and the y-coordinate of the circle is strictly
\* increasing in the average of the frame's per-channel frequencies (it
\* lies strictly between those of the rising frames whose average is more
\* than 1 Hz smaller and more than 1 Hz greater; coordinates resolve 0.001).
C17_OneCirclePerFrame ==
    [][ \A t \in ThreadIds :
          (HandsFrame(t) /\ paintbrush.currentAlgorithm = 1) =>
              /\ RLLength(rl') = RLLength(rl) + 1
              /\ rl'[RLLength(rl')][1] = 2
              /\ rl'[RLLength(rl')][5] = 1
              /\ \A d \in RisingFrames :
                    /\ FrameAvg(d) > FrameAvg(HandedFrame(t)) + Scale
                          => CircleY(d) > rl'[RLLength(rl')][3]
                    /\ FrameAvg(d) + Scale < FrameAvg(HandedFrame(t))
                          => CircleY(d) < rl'[RLLength(rl')][3] ]_vars

\* C18: for algorithm 1 in any playback or recording session the
\* x-coordinate of the circle drawn for frame index i is 2 * i / N - 1, N
\* being the length of the frequency list of the session being drawn
\* (freqList in playback, self.freqlist in a recording), so -1 <= x <= 1.
C18_CircleX ==
    [][ \A t \in ThreadIds :
          (HandsFrame(t) /\ paintbrush.currentAlgorithm = 1
                         /\ RLLength(rl') = RLLength(rl) + 1) =>
              LET N == IF threads[t].target = "dotheplay" THEN Len(freqList)
                       ELSE Len(recorded'[freqlist])
                  x == rl'[RLLength(rl')][2]
              IN  /\ x = (2 * HandedIndex(t) * Scale) \div N - Scale
                  /\ -Scale <= x
                  /\ x <= Scale ]_vars

C20_ZoomRange ==
    /\ Scale <= viewer.zoomfactor
    /\ viewer.zoomfactor <= 1000 * Scale

\* C20 witness: the zoom factor stands at 1000 in the middle of a drag, the
\* view having been panned.
C20_Witness ==
    /\ viewer.zoomfactor = 1000 * Scale
    /\ viewer.mouseDown
    /\ viewer.center # <<0, 0>>

\* C21: a mouse move with the left button down and the control modifier
\* active leaves the pan centre unchanged; a move with the button down and
\* no modifier leaves the zoom factor unchanged; a move with the button up
\* changes neither the centre nor the zoom factor.
C21_MoveFrame ==
    [][\A pos \in MousePositions, modifiers \in KeyboardModifiers :
         mouseMoveEvent(pos, modifiers) =>
           /\ (viewer.leftButton /\ "Control" \in modifiers)
                => viewer'.center = viewer.center
           /\ (viewer.leftButton /\ modifiers = {})
                => viewer'.zoomfactor = viewer.zoomfactor
           /\ ~viewer.leftButton
                => /\ viewer'.center = viewer.center
                   /\ viewer'.zoomfactor = viewer.zoomfactor]_vars

\* The distance, in 2 * width (2 * height) thousandths, between the point
\* x, y and the point the pixel pt stands for under the viewport v, that is
\* the point x' = (ptx - width / 2) * xr / width - center[0],
\* y' = center[1] - (pty - height / 2) * yr / height that XYtoQPoint sends
\* to the pixel exactly.
BackErrorX(v, x, pt) ==
    Abs((2 * pt[1] - v.width) * (v.screen[2] - v.screen[1])
        - 2 * v.width * (v.center[1] + x))

BackErrorY(v, y, pt) ==
    Abs(2 * v.height * (v.center[2] - y)
        - (2 * pt[2] - v.height) * (v.screen[4] - v.screen[3]))

\* C22 as stated, with the tolerance of a thousandth (far wider than that of
\* floating point): for every viewport state, the pixel XYtoQPoint gives for
\* a point, transformed back under the same viewport state, is the point
\* within the tolerance.
C22_RoundTrip ==
    \A i \in 1..Len(lastPaint.drawn) :
       /\ BackErrorX(viewer, rl[i][2], lastPaint.drawn[i]) <= 2 * viewer.width
       /\ BackErrorY(viewer, rl[i][3], lastPaint.drawn[i]) <= 2 * viewer.height

\* C22 amended: transformed back, the pixel gives the point within the
\* extent of one pixel, xr / width horizontally and yr / height vertically.
C22_RoundTripToThePixel ==
    \A i \in 1..Len(lastPaint.drawn) :
       /\ BackErrorX(viewer, rl[i][2], lastPaint.drawn[i])
            < 2 * (viewer.screen[2] - viewer.screen[1])
       /\ BackErrorY(viewer, rl[i][3], lastPaint.drawn[i])
            < 2 * (viewer.screen[4] - viewer.screen[3])

\* C22 witness: a point off the pixel grid has been painted after a pan and
\* a zoom, at a pixel other than the middle of the widget.
C22_Witness ==
    /\ viewer.center # <<0, 0>>
    /\ viewer.zoomfactor > Scale
    /\ Len(lastPaint.drawn) = 1
    /\ rl[1][2] = 503
    /\ lastPaint.drawn[1] # <<viewer.width \div 2, viewer.height \div 2>>

\* C23: when no file is loaded or the loaded file cannot be read, Render and
\* Play abort without any state change: no worker is started and the stop
\* flag, the thread reference, the render list and the algorithm state are
\* unchanged; a failed openFile leaves the loaded filename unchanged.
C23_AbortChangesNothing ==
    [][ /\ \A readable \in BOOLEAN :
             (~checkFile(readable) /\ (renderImage(readable) \/ PlaySoundData(readable)))
               => UNCHANGED <<threads, playsoundstop, music_thread, rl, renderAll,
                              paintbrush, algorithmNum, chunkSize, ChunkSizesList,
                              freqlist, recorded, freqList, SpectList,
                              algorithmFlag, loadedFilename>>
        /\ \A file_name \in FileNames :
             openFile(file_name, FALSE) => UNCHANGED loadedFilename ]_vars

\* C23 witness: Render or Play has just refused a loaded file that can no
\* longer be read, with the stop flag set, no thread reference, and a render
\* list a recording has filled.
C23_Witness ==
    /\ warning = "File Could Not be Loaded"
    /\ loadedFilename = "song.wav"
    /\ playsoundstop
    /\ music_thread = 0
    /\ rl # <<>>

\* The triangle object algorithm 9 adds for a stored triangle.
Alg9Object(Triangle, data) ==
    makeTriangle(Triangle[1][1], Triangle[1][2], Triangle[2][1], Triangle[2][2],
                 Triangle[3][1], Triangle[3][2], 1, <<data[1] * 10, 255, 130, 255>>)

\* C24: every call of algorithm 9 after the seed call ends without an error,
\* whatever the edges drawn and whatever the validations say; a call discards
\* the failed edges one at a time, and a call that finds the edge list empty
\* adds the stored triangle at the cursor and advances the cursor cyclically
\* (0, 1, ..., len - 1, 0, ...), leaving the lists alone.
C24_EndsWithoutError ==
    [][ \A data \in Alg9Data, spectdata \in Alg9Spect, rnd \in Alg9Rnd,
           outcomes \in Alg9Outcomes :
          (Alg9Frame(data, spectdata, rnd, outcomes) /\ paintbrush.RLData[1] = 0)
            => /\ ~an'.err
               /\ Len(paintbrush'.LineList) <= Len(paintbrush.LineList) + 1
               /\ paintbrush.LineList = <<>>
                    => /\ rl' = RLAdd(rl, Alg9Object(
                                  paintbrush.TriangleList[paintbrush.RLData[3] + 1], data))
                       /\ paintbrush'.RLData[3]
                            = (paintbrush.RLData[3] + 1) % Len(paintbrush.TriangleList)
                       /\ paintbrush'.TriangleList = paintbrush.TriangleList
                       /\ paintbrush'.LineList = <<>> ]_vars

\* The edges the seed call stores, and the seed triangle.
Alg9SeedTriangle == << <<0, 50>>, <<43, -25>>, <<-43, -25>> >>

Alg9SeedEdges ==
    << <<Alg9SeedTriangle[1], Alg9SeedTriangle[2]>>,
       <<Alg9SeedTriangle[2], Alg9SeedTriangle[3]>>,
       <<Alg9SeedTriangle[3], Alg9SeedTriangle[1]>> >>

\* The number of times edge e occurs in the list.
EdgeCount(list, e) == Cardinality({i \in 1..Len(list) : list[i] = e})

\* C25, the seed and the growth: the first call after reset stores exactly the
\* seed triangle and its three edges; a later call that succeeds appends
\* exactly one triangle, to the triangle list and to the render list, and its
\* two new edges (the two ends of the edge used joined to the new vertex) at
\* the end of the edge list; the edges picked in the call, one per iteration,
\* are gone from the edge list.
C25_Stores(data) ==
    LET old  == paintbrush.LineList
        new  == paintbrush'.LineList
        T    == paintbrush'.TriangleList[Len(paintbrush'.TriangleList)]
        used == <<T[1], T[2]>>
        kept == SubSeq(new, 1, Len(new) - 2)
    IN  IF paintbrush.RLData[1] # 0
        THEN /\ paintbrush'.TriangleList = Append(paintbrush.TriangleList, Alg9SeedTriangle)
             /\ new = old \o Alg9SeedEdges
             /\ rl' = RLAdd(rl, Alg9Object(Alg9SeedTriangle, data))
        ELSE ~an'.err
               => /\ paintbrush'.TriangleList = Append(paintbrush.TriangleList, T)
                  /\ rl' = RLAdd(rl, Alg9Object(T, data))
                  /\ SubSeq(new, Len(new) - 1, Len(new)) = << <<T[1], T[3]>>, <<T[2], T[3]>> >>
                  /\ EdgeCount(old, used) = EdgeCount(kept, used) + 1
                  /\ \A i \in 1..Len(kept) : EdgeCount(kept, kept[i]) <= EdgeCount(old, kept[i])

\* C25, the pick: the edge picked at random can be any edge in the edge list,
\* that is, for every position of the list some draw picks it.
C25_AnyEdge ==
    \A i \in 0..(Len(paintbrush.LineList) - 1) :
       \E rnd \in Alg9Rnd : Alg9LineIndex(paintbrush.LineList, rnd, 1) = i

\* C25: the first call of algorithm 9 after reset stores exactly one seed
\* triangle and its three edges; each later growing call, on success, appends
\* exactly one new triangle and its two new edges and stops, every edge
\* picked during the call having been removed from the edge list; and the
\* edge picked at random can be any edge currently in the edge list.
C25_SeedAndGrowth ==
    [][ \A data \in Alg9Data, spectdata \in Alg9Spect, rnd \in Alg9Rnd :
          Alg9Frame(data, spectdata, rnd, <<>>)
            => /\ C25_Stores(data)
               /\ paintbrush.RLData[1] = 0 => C25_AnyEdge ]_vars

\* Whether the segments a-b and c-d cross, by the orientation test (the
\* segment-intersection test of the claim), pairs that share an endpoint
\* being exempt.
Crosses(a, b, c, d) ==
    LET left(p, q, r) == (r[2] - p[2]) * (q[1] - p[1]) > (q[2] - p[2]) * (r[1] - p[1])
    IN  /\ {a, b} \cap {c, d} = {}
        /\ left(a, c, d) # left(b, c, d)
        /\ left(a, b, c) # left(a, b, d)

\* The three edges of a triangle, as sets of their two corners.
EdgesOf(T) == { <<T[1], T[2]>>, <<T[2], T[3]>>, <<T[3], T[1]>> }

\* C26: every triangle algorithm 9 appends after the seed passed validation
\* against the triangle list as it was: none of its edges crosses an edge of
\* a stored triangle (edges sharing an endpoint exempt) and its new vertex
\* lies within [-1, 1] x [-1, 1]; and a call appends nothing but that one
\* triangle to the triangle list and the render list and its two edges to
\* the edge list.
C26_AppendedIsValid ==
    [][ \A data \in Alg9Data, spectdata \in Alg9Spect, rnd \in Alg9Rnd :
          (Alg9Frame(data, spectdata, rnd, <<>>) /\ paintbrush.RLData[1] = 0)
            => /\ Len(paintbrush'.TriangleList) <= Len(paintbrush.TriangleList) + 1
               /\ Len(rl') - Len(rl)
                    = Len(paintbrush'.TriangleList) - Len(paintbrush.TriangleList)
               /\ Len(paintbrush'.TriangleList) = Len(paintbrush.TriangleList)
                    => \A i \in 1..Len(paintbrush'.LineList) :
                          EdgeCount(paintbrush'.LineList, paintbrush'.LineList[i])
                            <= EdgeCount(paintbrush.LineList, paintbrush'.LineList[i])
               /\ Len(paintbrush'.TriangleList) > Len(paintbrush.TriangleList)
                    => LET T == paintbrush'.TriangleList[Len(paintbrush'.TriangleList)]
                       IN  /\ \A n \in 1..Len(paintbrush.TriangleList) :
                                \A e \in EdgesOf(T), f \in EdgesOf(paintbrush.TriangleList[n]) :
                                   ~Crosses(e[1], e[2], f[1], f[2])
                           /\ T[3][1] >= -Scale /\ T[3][1] <= Scale
                           /\ T[3][2] >= -Scale /\ T[3][2] <= Scale ]_vars

\* C26 witness: a call has discarded the candidate of an edge that failed
\* validation and then stored a valid triangle: the edge list is shorter
\* than the triangles stored would make it.
C26_Witness ==
    /\ an.pc = "alg9"
    /\ ~an.err
    /\ Len(paintbrush.TriangleList) >= 4
    /\ Len(paintbrush.LineList) < Len(paintbrush.TriangleList) + 2
    /\ Len(rl) = Len(paintbrush.TriangleList)

\* A call of algorithm 6 that finds the first corner within .05 of the
\* origin replays instead of growing.
Alg6Replaying ==
    /\ paintbrush.currentAlgorithm = 6
    /\ paintbrush.RLData[1] * paintbrush.RLData[1]
         + paintbrush.RLData[2] * paintbrush.RLData[2] <= 50 * 50

\* The number of four-triangle blocks in the history of algorithm 6.
Alg6Blocks == Len(paintbrush.TriangleList) \div 4

\* C27: in replay mode of algorithm 6 each call redraws one block of four
\* consecutive history triangles (a triangle and two lines for each), the
\* block lies inside the history, whose length is a positive multiple of 4,
\* and the block redrawn is the one after the block of the previous replay
\* call, the first block following the last one.
C27_ReplayVisitsEveryBlock ==
    [][ \A data \in Alg9Data :
          (SessionFrame(data, an.spect) /\ Alg6Replaying)
            => LET before == paintbrush.RLData[9]
                   block  == paintbrush'.RLData[9]
               IN  /\ Len(paintbrush.TriangleList) > 0
                   /\ Len(paintbrush.TriangleList) % 4 = 0
                   /\ paintbrush'.TriangleList = paintbrush.TriangleList
                   /\ block \in 1..Alg6Blocks
                   /\ Len(rl') = Len(rl) + 12
                   /\ \A i \in 1..4 :
                        LET T == paintbrush.TriangleList[(block - 1) * 4 + i]
                            o == rl'[Len(rl) + 3 * (i - 1) + 1]
                        IN  <<o[2], o[3]>> = T[1] /\ <<o[4], o[5]>> = T[2]
                              /\ <<o[6], o[7]>> = T[3]
                   /\ block = IF before < Alg6Blocks THEN before + 1 ELSE 1 ]_vars

\* The trail walks.
TrailAlgorithms == {2, 3, 4, 5}

\* What every call of a trail walk does with the cursor: exactly one line
\* is appended, it runs from the cursor before the call to the cursor after
\* it, and the accumulated angle RLData[2] advances by step.
TrailStep(step) ==
    LET o == rl'[Len(rl')]
    IN  /\ Len(rl') = Len(rl) + 1
        /\ SubSeq(rl', 1, Len(rl)) = rl
        /\ o[1] = 1
        /\ <<o[2], o[3]>> = <<paintbrush.RLData[1], paintbrush.RLData[2]>>
        /\ <<o[4], o[5]>> = <<paintbrush'.RLData[1], paintbrush'.RLData[2]>>
        /\ paintbrush'.RLData[3] = paintbrush.RLData[3] + step

C29_RadiusBreathes ==
    [][ \A data \in Alg9Data, spectdata \in Alg9Spect :
          (SessionFrame(data, spectdata) /\ paintbrush.currentAlgorithm = 7)
            => LET growing == paintbrush.RLData[6]
                   after   == paintbrush'.RLData[6]
                   radius  == paintbrush'.RLData[2]
               IN  /\ growing = 1 => (after = 0 <=> radius > Scale)
                   /\ growing = 0 => (after = 1 <=> radius < 100)
                   /\ after \in {0, 1}
                   /\ radius >= 70 /\ radius <= 1300
                   /\ Len(rl') = Len(rl) + 11
                   /\ SubSeq(rl', 1, Len(rl)) = rl
                   /\ \A i \in Len(rl) + 1 .. Len(rl') : rl'[i][1] = 1 ]_vars

\* The star has grown past 1, shrunk below 0.1 and is growing again.
C29_Witness ==
    /\ an.pc = "session"
    /\ paintbrush.currentAlgorithm = 7
    /\ paintbrush.RLData[6] = 1
    /\ paintbrush.RLData[2] < 100
    /\ Len(rl) = 11 * calls
    /\ calls >= 16

\* The radius divisors (times 100) of the seven pi-bands, innermost last.
Alg10Bands == <<106, 128, 160, 210, 295, 480, 1200>>

\* C30: a call of algorithm 10 resets the second accumulator to 0 exactly
\* when, advanced by 0.51, it exceeds 7 pi, and then appends nothing; every
\* other call appends exactly one circle, placed with the divisor of the
\* pi-band (1..7) the advanced accumulator lies in.  The accumulator is in
\* [0, 7 pi] after every call and the resetting calls are the 44th, 88th,
\* 132nd, ... of the session.
C30_RingsReset ==
    [][ \A data \in Alg9Data :
          (SessionFrame(data, an.spect) /\ paintbrush.currentAlgorithm = 10)
            => LET advanced == paintbrush.RLData[2] + 510
                   reset    == advanced > 7 * PI
                   band     == (advanced + PI - 1) \div PI
                   theta    == (paintbrush'.RLData[1] % PI) * 2
                   o        == rl'[Len(rl')]
               IN  /\ paintbrush'.RLData[1] = paintbrush.RLData[1] + 510
                   /\ paintbrush'.RLData[2] = IF reset THEN 0 ELSE advanced
                   /\ paintbrush'.RLData[2] >= 0 /\ paintbrush'.RLData[2] <= 7 * PI
                   /\ reset => rl' = rl
                   /\ ~reset => /\ Len(rl') = Len(rl) + 1
                                /\ SubSeq(rl', 1, Len(rl)) = rl
                                /\ band \in 1..7
                                /\ o[1] = 2
                                /\ o[2] = (Cos(theta) * 100) \div Alg10Bands[band]
                                /\ o[3] = (Sin(theta) * 100) \div Alg10Bands[band]
                   /\ reset <=> calls' % 44 = 0 ]_vars

\* The second reset of a session of algorithm 10: 88 calls, 86 circles.
C30_Witness ==
    /\ an.pc = "session"
    /\ paintbrush.currentAlgorithm = 10
    /\ calls = 88
    /\ paintbrush.RLData[2] = 0
    /\ Len(rl) = 86


\* ------------------------------------------------------- single calls
\* The program at rest after construction, about to make one call of the
\* function named pc with the arguments args; an.result is <<>> until the
\* call has returned.
InitCall(pc, args) ==
    /\ loadedFilename = ""
    /\ music_thread = 0
    /\ playsoundstop = FALSE
    /\ threads = [t \in ThreadIds |-> NoThread]
    /\ rl = RLClear
    /\ renderAll = TRUE
    /\ lastRenderListSize = 0
    /\ updates = [pending |-> FALSE, worker |-> FALSE]
    /\ paint = NoPaint
    /\ lastPaint = [result |-> "none", worker |-> FALSE]
    /\ algorithmNum = 0
    /\ ChunkSizesList = AllChunkSizes
    /\ chunkSize = 4
    /\ paintbrush = PaintBrushInit
    /\ freqlist = 0
    /\ recorded = [t \in ThreadIds |-> <<>>]
    /\ freqList = <<>>
    /\ SpectList = <<>>
    /\ algorithmFlag = TRUE
    /\ calls = 0
    /\ adding = <<>>
    /\ an = [pc |-> pc, args |-> args, result |-> <<>>]
    /\ viewer = ViewerInit
    /\ warning = ""

\* The call returns result; nothing else of the program changes.
Return(result) ==
    /\ an.result = <<>>
    /\ an' = [an EXCEPT !.result = <<result>>]
    /\ UNCHANGED <<loadedFilename, music_thread, playsoundstop, threads, rl,
                   renderAll, lastRenderListSize, updates, paint, lastPaint,
                   algorithmNum, ChunkSizesList, chunkSize, paintbrush, freqlist,
                   recorded, freqList, SpectList, algorithmFlag, calls, adding,
                   viewer, warning>>

\* SpecRBG: one call of getRBG on a value in or just outside 0..1530.
RBGVals == -5..1535

InitRBG == \E RBGVal \in RBGVals : InitCall("getRBG", <<RBGVal>>)

NextRBG == an.pc = "getRBG" /\ Return(getRBG(an.args[1]))

SpecRBG == InitRBG /\ [][NextRBG]_vars

\* The corners of the hue cycle, as red, green and blue: red, magenta, blue,
\* cyan, green, yellow and red again.
HueCorners ==
    << <<255, 0, 0>>, <<255, 0, 255>>, <<0, 0, 255>>, <<0, 255, 255>>,
       <<0, 255, 0>>, <<255, 255, 0>>, <<255, 0, 0>> >>

\* The colour t steps of 255 along the way from corner a to corner b.
HueBetween(a, b, t) == [c \in 1..3 |-> a[c] + ((b[c] - a[c]) * t) \div 255]

\* C31: for every integer v in 0..1530 getRBG(v) has three components in
\* 0..255 and is the colour v mod 255 steps along the band v div 255 of the
\* cycle red, magenta, blue, cyan, green, yellow, red; at 255, 510, 765,
\* 1020 and 1275 that is the corner both neighbouring bands give, and
\* getRBG(0) = getRBG(1530) = pure red.
C31_HueRamp ==
    (an.pc = "getRBG" /\ an.result # <<>> /\ an.args[1] \in 0..1530)
      => LET v    == an.args[1]
             RBG  == an.result[1]
             band == v \div 255
         IN  /\ \A c \in 1..3 : RBG[c] \in 0..255
             /\ band < 6 => RBG = HueBetween(HueCorners[band + 1], HueCorners[band + 2], v % 255)
             /\ (band > 0 /\ v % 255 = 0)
                  => RBG = HueBetween(HueCorners[band], HueCorners[band + 1], 255)
             /\ v \in {0, 1530} => RBG = <<255, 0, 0>>

\* getRBG has returned the colour of the boundary 765 between the band from
\* blue to cyan and the band from cyan to green.
C31_Witness ==
    an.pc = "getRBG" /\ an.args = <<765>> /\ an.result = << <<0, 255, 255>> >>


\* ------------------------------------------------------------ SpecPlay
\* SpecPlay: one playback of a file of n frames by the worker dotheplay,
\* from the first test of its draw loop to its end, with algorithm 1, 2 or
\* 13 freshly selected and no recording made before.  The user may press
\* Stop at any moment.
MaxPlayFrames == 75

PlayAlgorithms == {1, 2, 13}

\* The state dotheplay is in when it reaches its draw loop, for one of the
\* algorithms algs freshly selected and a file analysed into 1..frames
\* frames.
InitPlayOf(algs, frames) ==
    /\ loadedFilename = "song.wav"
    /\ music_thread = 1
    /\ playsoundstop = FALSE
    /\ rl = RLClear
    /\ renderAll = TRUE
    /\ lastRenderListSize = 0
    /\ updates = [pending |-> FALSE, worker |-> FALSE]
    /\ paint = NoPaint
    /\ lastPaint = [result |-> "none", worker |-> FALSE]
    /\ \E alg \in algs :
         /\ algorithmNum = alg - 1
         /\ ChunkSizesList = ResetChunkList(alg - 1)
         /\ chunkSize = ResetChunkIndex(alg - 1, AllChunkSizes, 4)
         /\ paintbrush = [ResetFor(alg - 1, PaintBrushInit)
                            EXCEPT !.currentAlgorithm = alg, !.fl = 0]
    /\ \E n \in 1..frames :
         /\ freqList = Precomputed(n).freqList
         /\ SpectList = Precomputed(n).SpectList
         /\ threads = [t \in ThreadIds |->
                         IF t = 1 THEN Polled(Started("dotheplay"), 0, n, FALSE)
                         ELSE NoThread]
         /\ algorithmFlag = PlayFlag(0, n)
    /\ freqlist = 0
    /\ recorded = [t \in ThreadIds |-> <<>>]
    /\ calls = 0
    /\ adding = <<>>
    /\ an = NoAnalysis
    /\ viewer = ViewerInit
    /\ warning = ""

InitPlay == InitPlayOf(PlayAlgorithms, MaxPlayFrames)

NextPlay ==
    \/ PlayDraw(1)
    \/ PlayShown(1)
    \/ PlayClose(1)
    \/ StopSoundData

SpecPlay == InitPlay /\ [][NextPlay]_vars

\* The frames of the playback the generator has been called on so far
\* (0 .. PlayCalled - 1 when the worker was never skipped a frame).
PlayCalled ==
    IF threads[1].pc = "draw" THEN threads[1].i
    ELSE IF threads[1].pc = "shown" THEN threads[1].i + 1
    ELSE threads[1].i

\* The frames of a playback of n frames that are the last one or at a
\* half, a third, ... a ninth of the list.
SplitFrames(n) == {n - 1} \cup {n \div k : k \in 2..9}

MaxRecordFrames == 21

InitRecord ==
    /\ loadedFilename = ""
    /\ music_thread = 1
    /\ playsoundstop = FALSE
    /\ threads = [t \in ThreadIds |->
                    IF t = 1 THEN Started("dotherecord") ELSE NoThread]
    /\ rl = RLClear
    /\ renderAll = TRUE
    /\ lastRenderListSize = 0
    /\ updates = [pending |-> FALSE, worker |-> FALSE]
    /\ paint = NoPaint
    /\ lastPaint = [result |-> "none", worker |-> FALSE]
    /\ \E alg \in PlayAlgorithms :
         /\ algorithmNum = alg - 1
         /\ ChunkSizesList = ResetChunkList(alg - 1)
         /\ chunkSize = ResetChunkIndex(alg - 1, AllChunkSizes, 4)
         /\ paintbrush = ResetFor(alg - 1, PaintBrushInit)
    /\ freqlist = 0
    /\ recorded = [t \in ThreadIds |-> <<>>]
    /\ freqList = <<>>
    /\ SpectList = <<>>
    /\ algorithmFlag = TRUE
    /\ calls = 0
    /\ adding = <<>>
    /\ an = NoAnalysis
    /\ viewer = ViewerInit
    /\ warning = ""

NextRecord ==
    \/ RecordStart(1)
    \/ RecordLoopUpTo(1, MaxRecordFrames)
    \/ RecordRead(1)
    \/ RecordShown(1)
    \/ RecordClose(1)
    \/ StopSoundData

SpecRecord == InitRecord /\ [][NextRecord]_vars

\* A step in which dotherecord captures the frame at position pos.
Captures(pos) ==
    /\ At(1, "dotherecord", "read")
    /\ pos = Len(recorded[freqlist])
    /\ Len(recorded'[freqlist]) = pos + 1

\* The generator has run in this step: algorithm 1 adds a circle and
\* algorithm 2 a line on every call, algorithm 13 extends its buffer or adds
\* a rectangle and clears it.
GeneratorRan == rl' # rl \/ paintbrush' # paintbrush

EveryTenth == {10 * m : m \in 0..MaxRecordFrames}

\* C33 as stated: in live capture every captured frame is passed to the
\* generator, with the flag false exactly for the frames at positions 0, 10,
\* 20, ... and true for all others.
C33_EveryFramePassed ==
    [][\A pos \in 0..MaxRecordFrames :
         Captures(pos) => /\ GeneratorRan
                          /\ algorithmFlag' = (pos \notin EveryTenth)]_vars

\* C33, amended: in live capture every captured frame whose stored
\* frequencies are not [0, 0] is passed to the generator, with the flag
\* false exactly for the frames at positions 0, 10, 20, ... and true for all
\* others; a frame stored as [0, 0] is not passed to the generator.
C33_EveryUsableFramePassed ==
    [][\A pos \in 0..MaxRecordFrames :
         Captures(pos) =>
            IF recorded'[freqlist][pos + 1] # <<0, 0>>
            THEN /\ GeneratorRan
                 /\ algorithmFlag' = (pos \notin EveryTenth)
            ELSE ~GeneratorRan /\ UNCHANGED algorithmFlag]_vars

\* The frame at position 20 has been captured and drawn with a false flag,
\* after frames drawn with a true flag.
C33_Witness ==
    /\ threads[1].target = "dotherecord"
    /\ threads[1].pc = "shown"
    /\ Len(recorded[1]) = 21
    /\ recorded[1][21] # <<0, 0>>
    /\ ~algorithmFlag
    /\ Len(rl) > 3


\* ------------------------------------------------------------ SpecFill
\* RiemannFill of ObjectListViewer.  obj is a triangle object; the source's
\* obj[k] is obj[k + 1] here and the colour obj[8] is the last four entries.
RESOLUTION == 250

\* The anchors after the initial choice and the two comparisons of
\* "for i in range(2)": Range, the x and y of MidPoint, BegPoint and
\* EndPoint.
RiemannPair(obj, b, e, m) ==
    IF obj[2 * b] > obj[2 * e]
    THEN [Range |-> Abs(obj[2 * b] - obj[2 * e]),
          MidPoint |-> obj[2 * m], MidPointY |-> obj[2 * m + 1],
          BegPoint |-> obj[2 * e], BegPointY |-> obj[2 * e + 1],
          EndPoint |-> obj[2 * b], EndPointY |-> obj[2 * b + 1]]
    ELSE [Range |-> Abs(obj[2 * b] - obj[2 * e]),
          MidPoint |-> obj[2 * m], MidPointY |-> obj[2 * m + 1],
          BegPoint |-> obj[2 * b], BegPointY |-> obj[2 * b + 1],
          EndPoint |-> obj[2 * e], EndPointY |-> obj[2 * e + 1]]

\* A slip of the anchor search: the loop makes its first comparison only.
RiemannAnchorsOnce(obj) ==
    LET Compare(a, b, e, m) ==
            IF Abs(obj[2 * b] - obj[2 * e]) > a.Range
            THEN RiemannPair(obj, b, e, m) ELSE a
    IN  Compare(RiemannPair(obj, 1, 3, 2), 1, 2, 3)

RiemannAnchors(obj) ==
    LET Compare(a, b, e, m) ==
            IF Abs(obj[2 * b] - obj[2 * e]) > a.Range
            THEN RiemannPair(obj, b, e, m) ELSE a
    IN  Compare(Compare(RiemannPair(obj, 1, 3, 2), 1, 2, 3), 2, 3, 1)

\* The rectangle of slab i of the loop "for i in range(RESOLUTION)".  Its
\* coordinates are in units of 1 / RESOLUTION of the triangle's, so that
\* "width = Range / RESOLUTION" loses nothing; the quotients of the y values
\* are rounded towards minus infinity.
RiemannSlab(a, col, i) ==
    LET Along(y0, y1, x0, x1, x) == ((y1 - y0) * (x - x0 * RESOLUTION)) \div (x1 - x0)
                                      + y0 * RESOLUTION
        Slab(StartingX, EndingX) ==
            LET BegEnd(x) == Along(a.BegPointY, a.EndPointY, a.BegPoint, a.EndPoint, x)
                BegMid(x) == Along(a.BegPointY, a.MidPointY, a.BegPoint, a.MidPoint, x)
                MidEnd(x) == Along(a.MidPointY, a.EndPointY, a.MidPoint, a.EndPoint, x)
            IN  IF a.EndPoint = a.MidPoint
                THEN makeRectangle(StartingX, BegEnd(StartingX), EndingX, BegMid(EndingX),
                                   TRUE, col)
                ELSE IF a.BegPoint = a.MidPoint
                THEN makeRectangle(StartingX, MidEnd(StartingX), EndingX, BegEnd(EndingX),
                                   TRUE, col)
                ELSE makeRectangle(StartingX,
                                   IF StartingX >= a.MidPoint * RESOLUTION
                                   THEN MidEnd(StartingX) ELSE BegMid(StartingX),
                                   EndingX, BegEnd(EndingX), TRUE, col)
    IN  Slab(a.BegPoint * RESOLUTION + i * a.Range,
             a.BegPoint * RESOLUTION + (i + 1) * a.Range)

\* RiemannFill(qp, obj): the anchors it settles on and the rectangles it
\* hands to RendeRectangle, in order.  With the three vertices on one x the
\* first slab divides by zero and nothing is drawn.
RiemannFill(obj) ==
    LET Fill(a) ==
            IF a.Range = 0
            THEN [anchors |-> a, rects |-> <<>>, err |-> TRUE]
            ELSE [anchors |-> a,
                  rects |-> [k \in 1..RESOLUTION |->
                               RiemannSlab(a, SubSeq(obj, 9, Len(obj)), k - 1)],
                  err |-> FALSE]
    IN  Fill(RiemannAnchors(obj))

FillXs == {-1000, -333, 0, 750}

FillYs == {-500, 0, 1000}

InitFill ==
    \E x1 \in FillXs, x2 \in FillXs, x3 \in FillXs :
      \E y1 \in FillYs, y2 \in FillYs, y3 \in FillYs :
        InitCall("RiemannFill",
                 <<makeTriangle(x1, y1, x2, y2, x3, y3, TRUE, <<255, 0, 0, 255>>)>>)

NextFill == an.pc = "RiemannFill" /\ Return(RiemannFill(an.args[1]))

SpecFill == InitFill /\ [][NextFill]_vars

\* The vertices of a triangle object, as <<x, y>> pairs.
Vertices(obj) == << <<obj[2], obj[3]>>, <<obj[4], obj[5]>>, <<obj[6], obj[7]>> >>

\* C34: for a filled triangle whose vertices do not all share one x,
\* RiemannFill takes as begin and end the two vertices with the greatest
\* x-span (begin.x <= end.x) and as mid the remaining one, so that
\* begin.x <= mid.x <= end.x, and draws exactly 250 filled rectangles whose
\* x-intervals are contiguous and together cover exactly [begin.x, end.x].
C34_Slabs ==
    (an.pc = "RiemannFill" /\ an.result # <<>>
       /\ Cardinality({Vertices(an.args[1])[v][1] : v \in 1..3}) > 1)
      => LET V   == Vertices(an.args[1])
             a   == an.result[1].anchors
             R   == an.result[1].rects
             beg == <<a.BegPoint, a.BegPointY>>
             end == <<a.EndPoint, a.EndPointY>>
             mid == <<a.MidPoint, a.MidPointY>>
         IN  /\ ~an.result[1].err
             /\ \E p \in Permutations(1..3) :
                  beg = V[p[1]] /\ end = V[p[2]] /\ mid = V[p[3]]
             /\ \A v \in 1..3 : \A w \in 1..3 :
                  Abs(V[v][1] - V[w][1]) <= end[1] - beg[1]
             /\ beg[1] <= mid[1] /\ mid[1] <= end[1]
             /\ Len(R) = 250
             /\ \A k \in 1..Len(R) : R[k][1] = 3 /\ R[k][6] = TRUE /\ R[k][2] <= R[k][4]
             /\ R[1][2] = beg[1] * 250
             /\ R[Len(R)][4] = end[1] * 250
             /\ \A k \in 1..Len(R) - 1 : R[k][4] = R[k + 1][2]

\* A triangle whose second and third vertices span the greatest x has been
\* filled.
C34_Witness ==
    /\ an.pc = "RiemannFill"
    /\ an.result # <<>>
    /\ Len(an.result[1].rects) = 250
    /\ an.args[1][2] = 0 /\ an.args[1][4] = 750 /\ an.args[1][6] = -1000
    /\ an.result[1].anchors.MidPoint = 0


\* ---------------------------------------------------------- SpecSwitch
\* SpecSwitch: a playback of algorithm 2 or 13 during which the user may
\* select algorithm 2, 10 or 13 in the combo box (resetRLData runs on the
\* GUI thread between two steps of the worker).
MaxSwitchFrames == 4

SwitchIndices == {1, 9, 12}

InitSwitch == InitPlayOf({2, 13}, MaxSwitchFrames)

NextSwitch ==
    \/ PlayDraw(1)
    \/ PlayShown(1)
    \/ PlayClose(1)
    \/ \E index \in SwitchIndices : resetRLData(index)

SpecSwitch == InitSwitch /\ [][NextSwitch]_vars

\* The length of RLData the initializer of algorithm k leaves; no generator
\* changes the length of RLData.
LayoutOf(k) == Len(ResetFor(k - 1, PaintBrushInit).RLData)

\* C35: while a worker is running algorithm k, the shared algorithm state
\* always has the layout that k's initializer creates, even if the user
\* selects a different algorithm while the session is running; a generator
\* call therefore never indexes the state out of range.
C35_LayoutKept ==
    \A t \in ThreadIds :
       /\ (Alive(t) /\ threads[t].pc \in {"draw", "shown"})
             => Len(paintbrush.RLData) = LayoutOf(paintbrush.currentAlgorithm)
       /\ threads[t].state # "crashed"


\* C36: after each paint the recorded last-rendered length equals the list
\* length up to which that paint drew (the length its loop read when it
\* began), so that an object the worker appends while a paint is in
\* progress is never counted as rendered without having been drawn.
C36_RecordsWhatWasDrawn ==
    [][(paint.pc = "border" /\ paint'.pc = "idle")
         => lastRenderListSize' = paint.stop]_vars


\* Render (Play differs in the audio output only) invoked on a readable file
\* leaves a worker alive that was not alive before.
RenderStartsWorker ==
    renderImage(TRUE) /\ \E t \in ThreadIds : ~Alive(t) /\ threads'[t].state = "alive"

PlayStartsWorker ==
    PlaySoundData(TRUE) /\ \E t \in ThreadIds : ~Alive(t) /\ threads'[t].state = "alive"

\* C37: whenever no worker thread is alive and a readable file is loaded,
\* Render or Play starts a new worker: after a normal end of the previous
\* session, after a Stop, and after a worker that ended through an uncaught
\* exception (which leaves the thread reference set).  (A Thread object is
\* left to construct.)
C37_RestartAfterAnyEnd ==
    (AliveWorkers = {} /\ loadedFilename # "" /\ GuiIdle /\ Unborn # {})
      => (ENABLED RenderStartsWorker) /\ (ENABLED PlayStartsWorker)


\* C38: a playback worker that is never cancelled calls the generator
\* exactly once per analysed frame, in the order 0, 1, ..., n - 1, and then
\* closes the stream, clears the thread reference and terminates; a
\* cancelled worker has called the generator for a prefix of the frames
\* only.  (Algorithms 1 and 2 add one object per call; the blue byte of
\* algorithm 2's line is that of the frame's frequency.)
C38_OncePerFrameInOrder ==
    paintbrush.currentAlgorithm \in {1, 2} =>
       /\ Len(rl) <= Len(freqList)
       /\ paintbrush.currentAlgorithm = 2 =>
             \A j \in 1..Len(rl) : rl[j][8] = (freqList[j][1] % 100) + 55
       /\ (~playsoundstop /\ ~threads[1].stopped) =>
             /\ threads[1].state \in {"alive", "done"}
             /\ Len(rl) = PlayCalled
             /\ threads[1].state = "done" =>
                   PlayCalled = Len(freqList) /\ music_thread = 0


\* The chunk size the combo box shows.
ChunkValue == ChunkSizesList[chunkSize + 1]

\* The chunk size shown after the algorithm combo went from the current
\* selection to index and back.
ThereAndBack(index) ==
    LET back == algorithmNum
        Back(list, current) ==
            ResetChunkList(back)[ResetChunkIndex(back, list, current) + 1]
    IN  Back(ResetChunkList(index), ResetChunkIndex(index, ChunkSizesList, chunkSize))

\* C39: switching the algorithm preserves the selected chunk-size value
\* whenever that value is legal for the newly selected algorithm and
\* otherwise selects 16384; switching from a non-triangle algorithm with a
\* chunk size of 16384 or more to algorithm 6 or 9 and back restores the
\* chunk size, and switching between algorithms of the same category never
\* changes it.
C39_ChunkValueKept ==
    [][\A index \in 0..12 :
         resetRLData(index) =>
            /\ ChunkValue' = IF index \in {5, 8} /\ ChunkValue < 16384
                             THEN 16384 ELSE ChunkValue
            /\ ((index \in {5, 8}) <=> (algorithmNum \in {5, 8}))
                  => ChunkValue' = ChunkValue
            /\ (index \in {5, 8} /\ algorithmNum \notin {5, 8} /\ ChunkValue >= 16384)
                  => ThereAndBack(index) = ChunkValue]_vars

\* Algorithm 9 is selected and the chunk size is the greatest, 131072.
C39_Witness ==
    /\ algorithmNum = 8
    /\ ChunkSizesList = TriangleChunkSizes
    /\ chunkSize = 3


\* ------------------------------------------------------------- SpecAlg8
\* SpecAlg8: a session of algorithm 8 on two-channel frames: silence, both
\* channels level, the second channel the louder, the first the louder.
MaxAlg8Calls == 4

Alg8Data == { <<0, 0>>, <<100, 100>>, <<50, 300>>, <<300, 50>> }

InitAlg8 == InitSession /\ algorithmNum = 7 /\ an.spect = 5000

NextAlg8 ==
    \E data \in Alg8Data : calls < MaxAlg8Calls /\ SessionFrame(data, an.spect)

SpecAlg8 == InitAlg8 /\ [][NextAlg8]_vars

\* The largest frequency of channel c in the frames of the session so far.
ChannelMax(c) ==
    LET frames == recorded[freqlist]
    IN  CHOOSE m \in {frames[j][c] : j \in 1..Len(frames)} :
           \A j \in 1..Len(frames) : frames[j][c] <= m

\* C40: in algorithm 8, for every sequence of frames with non-negative
\* frequencies, the value handed to getRBG for each channel, int(channel
\* frequency / that channel's running maximum * 1530), lies in 0..1530, the
\* running maximum of a channel being the largest frequency of that same
\* channel since the reset.  (RLData[4] and RLData[5] hold the maxima; the
\* last twenty objects are the glows of the two channels, black when getRBG
\* was handed a value outside 0..1530.)
C40_HueIndexInRange ==
    (paintbrush.currentAlgorithm = 8 /\ calls > 0 /\ ~an.err)
      => LET frames == recorded[freqlist]
             last   == frames[Len(frames)]
         IN  \A c \in 1..2 :
                /\ paintbrush.RLData[4 + c] = ChannelMax(c)
                /\ ChannelMax(c) > 0
                      => (last[c] * 1530) \div paintbrush.RLData[4 + c] \in 0..1530
                /\ SubSeq(rl[Len(rl) - 20 + 10 * c], 6, 8) # <<0, 0, 0>>

====
